---- MODULE Spec2Model ----
(***************************************************************************)
(* Model of the confirmation-gated database agent of dao-whatsapp:         *)
(* the dispatcher tools (tools.py), the field validator (utils.py), the    *)
(* enum-typed relational store (db_model.py), the DatabaseAgent            *)
(* conversation layer (agent.py) and the transports that share one agent   *)
(* instance (whatsapp_server.py, server.py, main.py).                      *)
(*                                                                         *)
(* Python strings that the code lowercases, strips or compares are tuples  *)
(* of one-character strings.  Table names, field names and message types   *)
(* are identifiers the code never transforms and stay TLA+ strings.        *)
(* The @tool-decorated functions are modelled by their bodies.             *)
(***************************************************************************)
EXTENDS Integers, Sequences, FiniteSets, TLC

(* ------------------------------ bounds --------------------------------- *)
\* process_message calls in one run
MaxTurns == 3
\* tool invocations the LLM makes over one run
MaxCalls == 1
\* dispatcher operations called one after another on one store
MaxOps == 2

(* --------------------------- Python strings ---------------------------- *)
LowerOf ==
  [ A |-> "a", B |-> "b", C |-> "c", D |-> "d", E |-> "e", F |-> "f", G |-> "g", H |-> "h", I |-> "i", J |-> "j", K |-> "k", L |-> "l", M |-> "m", N |-> "n", O |-> "o", P |-> "p", Q |-> "q", R |-> "r", S |-> "s", T |-> "t", U |-> "u", V |-> "v", W |-> "w", X |-> "x", Y |-> "y", Z |-> "z" ]

\* str.lower() on one character
LowerChar(c) ==
  IF c \in DOMAIN LowerOf THEN LowerOf[c] ELSE IF c = "Ü" THEN "ü" ELSE c

\* str.lower()
lower(s) == [i \in 1..Len(s) |-> LowerChar(s[i])]

\* characters str.strip() removes
IsSpace(c) == c \in {" ", "\t", "\n"}

RECURSIVE lstrip(_)
lstrip(s) == IF s # <<>> /\ IsSpace(Head(s)) THEN lstrip(Tail(s)) ELSE s

RECURSIVE rstrip(_)
rstrip(s) ==
  IF s # <<>> /\ IsSpace(s[Len(s)]) THEN rstrip(SubSeq(s, 1, Len(s) - 1)) ELSE s

\* str.strip()
strip(s) == rstrip(lstrip(s))

\* Python None in a string-valued slot, SQL NULL in a text/enum column
None == <<"None">>

NULL == <<"NULL">>

(* ----------------------------- dictionaries ---------------------------- *)
\* d.get(k) used as a condition, for a boolean-valued key
Truthy(d, k) == k \in DOMAIN d /\ d[k] = TRUE

\* d.get(k) used as a condition, for an integer-valued key
TruthyInt(d, k) == k \in DOMAIN d /\ d[k] # 0

\* d[k] = v
DictSet(d, k, v) == [x \in (DOMAIN d) \cup {k} |-> IF x = k THEN v ELSE d[x]]

(* ------------------------- schema (utils, db_model) -------------------- *)
MODEL_MAP ==
  {"users", "clients", "goals", "projects", "tasks", "milestones", "assets",
   "briefings", "meeting_transcripts"}

VALID_STATUS ==
  [ clients |-> [
        type |-> <<
            <<"F", "a", "m", "i", "l", "y">>,
            <<"P", "r", "i", "v", "a", "t">>,
            <<"I", "n", "t", "e", "r", "n", "a", "l">>,
            <<"E", "x", "t", "e", "r", "n", "a", "l">> >>,
        status |-> <<
            <<"A", "c", "t", "i", "v", "e">>,
            <<"A", "r", "c", "h", "i", "v", "e">> >> ],
      goals |-> [
        status |-> <<
            <<"N", "o", "t", " ", "s", "t", "a", "r", "t", "e", "d">>,
            <<"I", "n", " ", "p", "r", "o", "g", "r", "e", "s", "s">>,
            <<"D", "o", "n", "e">> >> ],
      projects |-> [
        status |-> <<
            <<"N", "o", "t", " ", "s", "t", "a", "r", "t", "e", "d">>,
            <<"I", "n", " ", "p", "r", "o", "g", "r", "e", "s", "s">>,
            <<"S", "t", "u", "c", "k">>,
            <<"D", "o", "n", "e">> >>,
        priority |-> <<
            <<"P", "1">>,
            <<"P", "2">>,
            <<"P", "3">> >>,
        client_v2 |-> <<
            <<"M", "a", "m", "a", " ", "H", "a", "n", "h">>,
            <<"M", "s", " ", "H", "a", "n", "h">>,
            <<"C", "i", "r", "c", "u", "s", " ", "G", "r", "o", "u", "p">>,
            <<"F", "u", "l", "l", "y", " ", "A", "I">>,
            <<"G", "a", "s", "t", "r", "o", "f", "ü", "s", "t", "e", "r", "e", "r">>,
            <<"D", "A", "O", " ", "O", "S">>,
            <<"M", "a", "m", "a", " ", "L", "e", " ", "B", "a", "o">>,
            <<"A", "s", "i", "a", " ", "H", "u", "n", "g">>,
            <<"C", "l", "i", "n", "i", "c", " ", "O", "S">>,
            <<"I", "n", "t", "e", "r", "n", "a", "l">> >> ],
      tasks |-> [
        status |-> <<
            <<"I", "n", "b", "o", "x">>,
            <<"P", "a", "u", "s", "e", "d", "/", "L", "a", "t", "e", "r", " ", "(", "P", "3", ")">>,
            <<"N", "e", "x", "t", " ", "(", "P", "2", ")">>,
            <<"N", "o", "w", " ", "(", "P", "1", ")">>,
            <<"I", "n", " ", "p", "r", "o", "g", "r", "e", "s", "s">>,
            <<"D", "r", "a", "f", "t", " ", "R", "e", "v", "i", "e", "w">>,
            <<"W", "a", "i", "t", "i", "n", "g", " ", "f", "o", "r", " ", "F", "e", "e", "d", "b", "a", "c", "k">>,
            <<"D", "o", "n", "e">> >>,
        days |-> <<
            <<"M", "o", "n", "d", "a", "y">>,
            <<"T", "u", "e", "s", "d", "a", "y">>,
            <<"W", "e", "d", "n", "e", "s", "d", "a", "y">>,
            <<"T", "h", "u", "r", "s", "d", "a", "y">>,
            <<"F", "r", "i", "d", "a", "y">>,
            <<"S", "a", "t", "u", "r", "d", "a", "y">>,
            <<"S", "u", "n", "d", "a", "y">> >>,
        recur_unit |-> <<
            <<"D", "a", "y", "(", "s", ")">>,
            <<"W", "e", "e", "k", "(", "s", ")">>,
            <<"M", "o", "n", "t", "h", "(", "s", ")">>,
            <<"M", "o", "n", "t", "h", "(", "s", ")", " ", "o", "n", " ", "t", "h", "e", " ", "F", "i", "r", "s", "t", " ", "W", "e", "e", "k", "d", "a", "y">>,
            <<"M", "o", "n", "t", "h", "(", "s", ")", " ", "o", "n", " ", "t", "h", "e", " ", "L", "a", "s", "t", " ", "W", "e", "e", "k", "d", "a", "y">>,
            <<"M", "o", "n", "t", "h", "(", "s", ")", " ", "o", "n", " ", "t", "h", "e", " ", "L", "a", "s", "t", " ", "D", "a", "y">>,
            <<"Y", "e", "a", "r", "(", "s", ")">> >> ],
      milestones |-> [
        status |-> <<
            <<"N", "o", "t", " ", "s", "t", "a", "r", "t", "e", "d">>,
            <<"B", "a", "c", "k", "l", "o", "g">>,
            <<"P", "a", "u", "s", "e", "d">>,
            <<"I", "n", " ", "p", "r", "o", "g", "r", "e", "s", "s">>,
            <<"H", "i", "g", "h", " ", "P", "r", "i", "o", "r", "i", "t", "y">>,
            <<"U", "n", "d", "e", "r", " ", "R", "e", "v", "i", "e", "w">>,
            <<"S", "h", "i", "p", "p", "e", "d">>,
            <<"D", "o", "n", "e">> >> ],
      assets |-> [
        type |-> <<
            <<"S", "o", "c", "i", "a", "l", " ", "M", "e", "d", "i", "a", " ", "P", "o", "s", "t">>,
            <<"I", "m", "a", "g", "e">>,
            <<"B", "l", "o", "g">>,
            <<"D", "o", "c">>,
            <<"L", "o", "o", "m", " ", "V", "i", "d", "e", "o">>,
            <<"Y", "o", "u", "T", "u", "b", "e", " ", "V", "i", "d", "e", "o">>,
            <<"S", "h", "e", "e", "t", "s">>,
            <<"N", "o", "t", "i", "o", "n", " ", "P", "a", "g", "e">> >> ],
      briefings |-> [
        client_type |-> <<
            <<"F", "a", "m", "i", "l", "y">>,
            <<"P", "r", "i", "v", "a", "t">>,
            <<"I", "n", "t", "e", "r", "n", "a", "l">>,
            <<"E", "x", "t", "e", "r", "n", "a", "l">> >> ] ]

(* ------------------------------ the store ------------------------------ *)
\* the columns of a row that the model keeps
COLUMNS == {"name", "type", "status"}

\* tables whose model class declares an Enum-typed status column
STATUS_TABLES == {"clients", "goals", "projects", "tasks", "milestones"}

\* tables whose model class declares an Enum-typed type column
TYPE_TABLES == {"clients", "assets"}

\* Column(..., default=...) of table.status
StatusDefault(table) ==
  CASE table = "tasks" -> <<"I", "n", "b", "o", "x">>
    [] table \in {"goals", "projects", "milestones"} ->
         <<"N", "o", "t", " ", "s", "t", "a", "r", "t", "e", "d">>
    [] OTHER -> NULL

\* keyword arguments the model class of a table accepts
Accepts(table, data) ==
  \A k \in DOMAIN data :
    \/ k = "name"
    \/ k = "type" /\ table \in TYPE_TABLES
    \/ k = "status" /\ table \in STATUS_TABLES

\* the database accepts the value for table.status (NULL or an Enum label)
EnumOk(table, value) ==
  LET \* labels of the Enum type of table.status (the same labels as VALID_STATUS)
      StatusEnum(of_table) ==
        {VALID_STATUS[of_table]["status"][i] : i \in 1..Len(VALID_STATUS[of_table]["status"])}
  IN
  table \in STATUS_TABLES => (value = NULL \/ value \in StatusEnum(table))

\* the database accepts the value for table.type (NULL or an Enum label)
TypeOk(table, value) ==
  LET \* labels of the Enum type of table.type (the same labels as VALID_STATUS)
      TypeEnum(of_table) ==
        {VALID_STATUS[of_table]["type"][i] : i \in 1..Len(VALID_STATUS[of_table]["type"])}
  IN
  table \in TYPE_TABLES => (value = NULL \/ value \in TypeEnum(table))

\* session.add(model_class(**data)); session.commit(): a row with the next
\* identifier, or raised when the constructor or the database rejects data
DbInsert(db, table, data) ==
  LET status == IF "status" \in DOMAIN data THEN data["status"]
                ELSE StatusDefault(table)
      row == [id |-> db.next_id[table],
              name |-> IF "name" \in DOMAIN data THEN data["name"] ELSE NULL,
              type |-> IF "type" \in DOMAIN data THEN data["type"] ELSE NULL,
              status |-> status]
  IN IF ~Accepts(table, data) \/ ~EnumOk(table, status) \/ ~TypeOk(table, row.type)
     THEN [raised |-> TRUE, db |-> db, record_id |-> 0]
     ELSE [raised |-> FALSE,
           db |-> [rows |-> [db.rows EXCEPT ![table] = @ \cup {row}],
                   next_id |-> [db.next_id EXCEPT ![table] = @ + 1]],
           record_id |-> row.id]

\* session.query(model_class).filter(model_class.id == record_id).first()
DbFind(db, table, record_id) == {r \in db.rows[table] : r.id = record_id}

\* setattr(record, key, value) for every key; session.commit()
DbUpdate(db, table, record_id, data) ==
  LET old == CHOOSE r \in DbFind(db, table, record_id) : TRUE
      new == [id |-> old.id,
              name |-> IF "name" \in DOMAIN data THEN data["name"] ELSE old.name,
              type |-> IF "type" \in DOMAIN data /\ table \in TYPE_TABLES
                       THEN data["type"] ELSE old.type,
              status |-> IF "status" \in DOMAIN data /\ table \in STATUS_TABLES
                         THEN data["status"] ELSE old.status]
  IN IF ~EnumOk(table, new.status) \/ ~TypeOk(table, new.type)
     THEN [raised |-> TRUE, db |-> db]
     ELSE [raised |-> FALSE,
           db |-> [db EXCEPT !.rows[table] = (@ \ {old}) \cup {new}]]

(* --------------------------- field validator --------------------------- *)
\* index of the first legal value equal to value ignoring case, 0 if none
ExactMatch(valid_values, value) ==
  LET hits == {i \in 1..Len(valid_values) :
                 lower(value) = lower(valid_values[i])}
  IN IF hits = {} THEN 0 ELSE CHOOSE i \in hits : \A j \in hits : i <= j

\* variant: an exact match returns the value as the caller wrote it
validate_field_value_echoing(table, field, value) ==
  IF table \notin DOMAIN VALID_STATUS
  THEN [raised |-> FALSE, is_valid |-> TRUE, suggested_value |-> value]
  ELSE IF field \notin DOMAIN VALID_STATUS[table]
  THEN [raised |-> FALSE, is_valid |-> TRUE, suggested_value |-> value]
  ELSE IF ExactMatch(VALID_STATUS[table][field], value) # 0
  THEN [raised |-> FALSE, is_valid |-> TRUE, suggested_value |-> value]
  ELSE [raised |-> TRUE, is_valid |-> FALSE, suggested_value |-> None]

\* variant: a value without rules is returned in lower case
validate_field_value_lowering(table, field, value) ==
  IF table \notin DOMAIN VALID_STATUS
  THEN [raised |-> FALSE, is_valid |-> TRUE, suggested_value |-> lower(value)]
  ELSE IF field \notin DOMAIN VALID_STATUS[table]
  THEN [raised |-> FALSE, is_valid |-> TRUE, suggested_value |-> lower(value)]
  ELSE IF ExactMatch(VALID_STATUS[table][field], value) # 0
  THEN [raised |-> FALSE, is_valid |-> TRUE,
        suggested_value |->
          VALID_STATUS[table][field][ExactMatch(VALID_STATUS[table][field], value)]]
  ELSE [raised |-> TRUE, is_valid |-> FALSE, suggested_value |-> None]

\* utils.validate_field_value.  The fuzzy branch calls fuzz.ratio, a name
\* utils.py never imports: reaching it raises NameError.
validate_field_value(table, field, value) ==
  IF table \notin DOMAIN VALID_STATUS
  THEN [raised |-> FALSE, is_valid |-> TRUE, suggested_value |-> value]
  ELSE IF field \notin DOMAIN VALID_STATUS[table]
  THEN [raised |-> FALSE, is_valid |-> TRUE, suggested_value |-> value]
  ELSE LET valid_values == VALID_STATUS[table][field]
           hit == ExactMatch(valid_values, value)
       IN IF hit # 0
          THEN [raised |-> FALSE, is_valid |-> TRUE,
                suggested_value |-> valid_values[hit]]
          ELSE [raised |-> TRUE, is_valid |-> FALSE, suggested_value |-> None]

(* ------------------------------ dispatcher ----------------------------- *)
\* {"success": False, "error": ...}
Failure(why) == [success |-> FALSE, error |-> <<why>>]

\* variant: the name is not stripped before the test
BlankNameUnstripped(data) == "name" \notin DOMAIN data \/ data["name"] = <<>>

\* not data.get('name') or not str(data.get('name')).strip()
BlankName(data) == "name" \notin DOMAIN data \/ strip(data["name"]) = <<>>

\* the order in which a field-map lists the fields the model keeps
FieldOrder == <<"name", "type", "status">>

\* the validation loop of update_record stops at this field: the first
\* field of data, in iteration order, whose validation raises or fails
\* ("" when every field passes)
FirstStop(table, data) ==
  LET Stops(f) == LET v == validate_field_value(table, f, data[f])
                  IN v.raised \/ ~v.is_valid
      idx == {i \in 1..Len(FieldOrder) :
                FieldOrder[i] \in DOMAIN data /\ Stops(FieldOrder[i])}
  IN IF idx = {} THEN "" ELSE FieldOrder[CHOOSE i \in idx : \A j \in idx : i <= j]

\* variant: the name is tested before the table
create_record_name_first(db, table, data) ==
  IF BlankName(data)
  THEN [db |-> db,
        result |-> [success |-> FALSE, requires_confirmation |-> TRUE,
                    pending_table |-> table, pending_data |-> data,
                    message |-> <<"name_empty_proceed", table>>]]
  ELSE IF table \notin MODEL_MAP
  THEN [db |-> db, result |-> Failure("invalid_table")]
  ELSE IF DbInsert(db, table, data).raised
  THEN [db |-> db, result |-> Failure("failed_to_create")]
  ELSE [db |-> DbInsert(db, table, data).db,
        result |-> [success |-> TRUE,
                    record_id |-> DbInsert(db, table, data).record_id,
                    message |-> <<"created", table>>]]

\* tools.create_record
create_record(db, table, data) ==
  IF table \notin MODEL_MAP
  THEN [db |-> db, result |-> Failure("invalid_table")]
  ELSE IF BlankName(data)
  THEN [db |-> db,
        result |-> [success |-> FALSE, requires_confirmation |-> TRUE,
                    pending_table |-> table, pending_data |-> data,
                    message |-> <<"name_empty_proceed", table>>]]
  ELSE LET validation_result == validate_field_value(table, "name", data["name"])
       IN IF validation_result.raised
          THEN [db |-> db, result |-> Failure("failed_to_create")]
          ELSE IF ~validation_result.is_valid
          THEN [db |-> db,
                result |-> [success |-> FALSE,
                            requires_field_confirmation |-> TRUE,
                            pending_table |-> table, pending_data |-> data,
                            field |-> "name", user_value |-> data["name"],
                            suggested_value |-> validation_result.suggested_value,
                            message |-> <<"invalid_value_did_you_mean", "name">>]]
          ELSE LET ins == DbInsert(db, table, data)
               IN IF ins.raised
                  THEN [db |-> db, result |-> Failure("failed_to_create")]
                  ELSE [db |-> ins.db,
                        result |-> [success |-> TRUE, record_id |-> ins.record_id,
                                    message |-> <<"created", table>>]]

\* variant: each field that passes validation is written as soon as it has
\* been validated
update_record_writing_early(db, table, record_id, data) ==
  IF table \notin MODEL_MAP
  THEN [db |-> db, result |-> Failure("invalid_table")]
  ELSE IF DbFind(db, table, record_id) = {}
  THEN [db |-> db, result |-> Failure("not_found")]
  ELSE IF FirstStop(table, data) = ""
  THEN IF DbUpdate(db, table, record_id, data).raised
       THEN [db |-> db, result |-> Failure("failed_to_update")]
       ELSE [db |-> DbUpdate(db, table, record_id, data).db,
             result |-> [success |-> TRUE, message |-> <<"updated", table>>]]
  ELSE [db |-> DbUpdate(db, table, record_id,
                        [f \in {g \in DOMAIN data :
                                   FirstStop(table, [h \in {g} |-> data[h]]) = ""}
                           |-> data[f]]).db,
        result |-> Failure("failed_to_update")]

\* variant: the fields are validated before the record is looked up
update_record_validating_first(db, table, record_id, data) ==
  IF table \notin MODEL_MAP
  THEN [db |-> db, result |-> Failure("invalid_table")]
  ELSE LET field == FirstStop(table, data)
       IN IF field = "" /\ DbFind(db, table, record_id) = {}
          THEN [db |-> db, result |-> Failure("not_found")]
          ELSE IF field # "" /\ validate_field_value(table, field, data[field]).raised
          THEN [db |-> db, result |-> Failure("failed_to_update")]
          ELSE IF field # ""
          THEN [db |-> db,
                result |-> [success |-> FALSE,
                            requires_field_confirmation |-> TRUE,
                            pending_table |-> table,
                            pending_record_id |-> record_id,
                            pending_data |-> data,
                            field |-> field, user_value |-> data[field],
                            suggested_value |->
                              validate_field_value(table, field, data[field]).suggested_value,
                            message |-> <<"invalid_value_did_you_mean", field>>]]
          ELSE LET upd == DbUpdate(db, table, record_id, data)
               IN IF upd.raised
                  THEN [db |-> db, result |-> Failure("failed_to_update")]
                  ELSE [db |-> upd.db,
                        result |-> [success |-> TRUE,
                                    message |-> <<"updated", table>>]]

\* tools.update_record
update_record(db, table, record_id, data) ==
  IF table \notin MODEL_MAP
  THEN [db |-> db, result |-> Failure("invalid_table")]
  ELSE IF DbFind(db, table, record_id) = {}
  THEN [db |-> db, result |-> Failure("not_found")]
  ELSE LET field == FirstStop(table, data)
       IN IF field # "" /\ validate_field_value(table, field, data[field]).raised
          THEN [db |-> db, result |-> Failure("failed_to_update")]
          ELSE IF field # ""
          THEN [db |-> db,
                result |-> [success |-> FALSE,
                            requires_field_confirmation |-> TRUE,
                            pending_table |-> table,
                            pending_record_id |-> record_id,
                            pending_data |-> data,
                            field |-> field, user_value |-> data[field],
                            suggested_value |->
                              validate_field_value(table, field, data[field]).suggested_value,
                            message |-> <<"invalid_value_did_you_mean", field>>]]
          ELSE LET upd == DbUpdate(db, table, record_id, data)
               IN IF upd.raised
                  THEN [db |-> db, result |-> Failure("failed_to_update")]
                  ELSE [db |-> upd.db,
                        result |-> [success |-> TRUE,
                                    message |-> <<"updated", table>>]]

\* tools.delete_record
delete_record(db, table, record_id) ==
  IF table \notin MODEL_MAP
  THEN [db |-> db, result |-> Failure("invalid_table")]
  ELSE IF DbFind(db, table, record_id) = {}
  THEN [db |-> db, result |-> Failure("not_found")]
  ELSE [db |-> [db EXCEPT !.rows[table] = @ \ DbFind(db, table, record_id)],
        result |-> [success |-> TRUE, message |-> <<"deleted", table>>]]

\* tools.read_record
read_record(db, table, record_id) ==
  IF table \notin MODEL_MAP
  THEN [db |-> db, result |-> Failure("invalid_table")]
  ELSE IF DbFind(db, table, record_id) = {}
  THEN [db |-> db, result |-> Failure("not_found")]
  ELSE [db |-> db,
        result |-> [success |-> TRUE,
                    record |-> CHOOSE r \in DbFind(db, table, record_id) : TRUE,
                    message |-> <<"retrieved", table>>]]

(* fuzzywuzzy, as tools.py imports it: the scores of fuzz.ratio and
   fuzz.partial_ratio on two strings *)

Max(a, b) == IF a >= b THEN a ELSE b

\* int(round(n / d)) for n >= 0, d > 0: Python rounds a tie to the even side
Intr(n, d) ==
  IF 2 * (n % d) < d THEN n \div d
  ELSE IF 2 * (n % d) > d THEN (n \div d) + 1
  ELSE IF (n \div d) % 2 = 0 THEN n \div d ELSE (n \div d) + 1

\* length of a longest common subsequence: the matched characters of the
\* Levenshtein matcher, which counts a substitution as delete plus insert
RECURSIVE Matched(_, _)
Matched(s1, s2) ==
  IF s1 = <<>> \/ s2 = <<>> THEN 0
  ELSE IF Head(s1) = Head(s2) THEN 1 + Matched(Tail(s1), Tail(s2))
  ELSE Max(Matched(Tail(s1), s2), Matched(s1, Tail(s2)))

\* fuzz.ratio: 0 for an empty string, else 100 * 2 * matched / total length
Ratio(s1, s2) ==
  IF s1 = <<>> \/ s2 = <<>> THEN 0
  ELSE Intr(200 * Matched(s1, s2), Len(s1) + Len(s2))

\* fuzz.partial_ratio
PartialRatio(s1, s2) ==
  LET \* the best Ratio of shorter against a window of longer of shorter's length
      BestWindow(shorter, longer) ==
        LET starts == 1..(Len(longer) - Len(shorter) + 1)
            score(i) == Ratio(shorter, SubSeq(longer, i, i + Len(shorter) - 1))
        IN CHOOSE m \in {score(i) : i \in starts} :
             \A i \in starts : score(i) <= m
  IN
  IF s1 = <<>> \/ s2 = <<>> THEN 0
  ELSE IF Len(s1) <= Len(s2) THEN BestWindow(s1, s2) ELSE BestWindow(s2, s1)

\* the rows of a table in the order a query without ORDER BY returns them
\* (the order of insertion, which is the order of the identifiers)
RECURSIVE InOrder(_)
InOrder(rows) ==
  IF rows = {} THEN <<>>
  ELSE LET first == CHOOSE r \in rows : \A o \in rows : r.id <= o.id
       IN <<first>> \o InOrder(rows \ {first})

\* seq[:limit] of Python: a negative limit drops elements from the end
Slice(seq, limit) ==
  IF limit >= 0
  THEN SubSeq(seq, 1, IF limit < Len(seq) THEN limit ELSE Len(seq))
  ELSE SubSeq(seq, 1, Max(Len(seq) + limit, 0))

\* tools.list_records
list_records(db, table, limit, filters) ==
  LET \* the result of a listing
      Listed(of_table, records) ==
        [success |-> TRUE, records |-> records, count |-> Len(records),
         message |-> <<"retrieved_list", of_table>>]
  IN
  LET \* the database rejects the query: a negative LIMIT, or a comparison of an
      \* Enum column with a string that is not one of its labels
      QueryRaises(of_table, of_limit, of_filters) ==
        \/ of_limit < 0
        \/ "type" \in DOMAIN of_filters /\ ~TypeOk(of_table, of_filters["type"])
        \/ "status" \in DOMAIN of_filters /\ ~EnumOk(of_table, of_filters["status"])
  IN
  LET \* the filter key = value holds of row r (a key the model class lacks is
      \* skipped by list_records)
      Matches(of_table, r, of_filters) ==
        \A k \in DOMAIN of_filters :
          (/\ k \in COLUMNS
           /\ k = "type" => of_table \in TYPE_TABLES
           /\ k = "status" => of_table \in STATUS_TABLES) => r[k] = of_filters[k]
  IN
  IF table \notin MODEL_MAP
  THEN [db |-> db, result |-> Failure("invalid_table")]
  ELSE IF QueryRaises(table, IF limit > 100 THEN 100 ELSE limit, filters)
  THEN [db |-> db, result |-> Failure("failed_to_list")]
  ELSE [db |-> db,
        result |->
          Listed(table,
                 Slice(SelectSeq(InOrder(db.rows[table]),
                                 LAMBDA r : Matches(table, r, filters)),
                       IF limit > 100 THEN 100 ELSE limit))]

\* variant: the sequence is left in store order
Unsorted(seq, key) == seq

\* sorted(..., key = score, reverse = True) of Python, which is stable: the
\* first element with the greatest score, then the rest sorted
RECURSIVE SortedByScore(_, _)
SortedByScore(seq, key) ==
  IF seq = <<>> THEN <<>>
  ELSE LET best == CHOOSE i \in 1..Len(seq) :
                     /\ \A j \in 1..Len(seq) : seq[j][key] <= seq[i][key]
                     /\ \A j \in 1..(i - 1) : seq[j][key] < seq[i][key]
       IN <<seq[best]>> \o
          SortedByScore(SubSeq(seq, 1, best - 1) \o SubSeq(seq, best + 1, Len(seq)),
                        key)

\* a truthy record.name: neither NULL nor the empty string
HasName(r) == r.name # NULL /\ r.name # <<>>

\* process.extract(name_query, all_names, limit=5) as name/score pairs
Suggestions(all_records, name_query) ==
  LET \* fuzz.WRatio, the scorer of process.extract, on two processed texts of at
      \* most one word each (the token scorers then equal the plain ones, and
      \* their weight 0.95 keeps them below the plain score)
      WRatio(p1, p2) ==
        IF p1 = <<>> \/ p2 = <<>> THEN 0
        ELSE IF 2 * Max(Len(p1), Len(p2)) < 3 * (IF Len(p1) <= Len(p2) THEN Len(p1) ELSE Len(p2))
        THEN Ratio(p1, p2)
        ELSE Max(Ratio(p1, p2),
                 Intr((IF Max(Len(p1), Len(p2)) >
                          8 * (IF Len(p1) <= Len(p2) THEN Len(p1) ELSE Len(p2))
                       THEN 6 ELSE 9) * PartialRatio(p1, p2), 10))
  IN
  LET \* utils.full_process of fuzzywuzzy on a text of letters and blanks
      FullProcess(s) == strip(lower(s))
  IN
  LET named == SelectSeq(all_records, HasName)
      pairs == [i \in 1..Len(named) |->
                  [name |-> named[i].name,
                   similarity |-> WRatio(FullProcess(name_query),
                                         FullProcess(named[i].name))]]
  IN Slice(SortedByScore(pairs, "similarity"), 5)

\* the result of a search that ran: the limited matches and, when there are
\* none, the suggestions (<<>> stands for the None returned when there are
\* no suggestions)
Found(table, all_records, records, name_query) ==
  [success |-> TRUE,
   records |-> records,
   count |-> Len(records),
   suggestions |-> IF records = <<>> /\ all_records # <<>>
                      /\ Suggestions(all_records, name_query) # <<>>
                   THEN Suggestions(all_records, name_query) ELSE <<>>,
   message |-> <<"found", table>>]

\* variant: a candidate is kept when its score is at most the threshold
ClearsBelow(m, min_similarity) ==
  HasName(m.record) /\ m.similarity <= min_similarity

\* hasattr(record, 'name') and record.name, and similarity >= min_similarity
Clears(m, min_similarity) ==
  HasName(m.record) /\ m.similarity >= min_similarity

\* tools.search_records_by_name
search_records_by_name(db, table, name_query, limit, min_similarity) ==
  LET \* the records of matches[:limit]
      Limited(matches, of_limit) ==
        [i \in 1..Len(Slice(matches, of_limit)) |-> matches[i].record]
  IN
  LET \* the candidates of a search with their scores, in store order
      Scored(all_records, of_name_query) ==
        [i \in 1..Len(all_records) |->
           [record |-> all_records[i],
            similarity |-> IF HasName(all_records[i])
                           THEN PartialRatio(lower(of_name_query), lower(all_records[i].name))
                           ELSE -1]]
  IN
  IF table \notin MODEL_MAP
  THEN [db |-> db, result |-> Failure("invalid_table")]
  ELSE [db |-> db,
        result |->
          Found(table, InOrder(db.rows[table]),
                Limited(SortedByScore(
                          SelectSeq(Scored(InOrder(db.rows[table]), name_query),
                                    LAMBDA m : Clears(m, min_similarity)),
                          "similarity"),
                        IF limit > 100 THEN 100 ELSE limit),
                name_query)]

confirm_create_rechecking_name(db, table, data) == create_record(db, table, data)

\* tools.confirm_create_with_empty_name: no table check, no name check, no
\* validation; MODEL_MAP[table] raises KeyError for an unknown table
confirm_create_with_empty_name(db, table, data) ==
  IF table \notin MODEL_MAP
  THEN [db |-> db, result |-> Failure("failed_to_create")]
  ELSE LET ins == DbInsert(db, table, data)
       IN IF ins.raised
          THEN [db |-> db, result |-> Failure("failed_to_create")]
          ELSE [db |-> ins.db,
                result |-> [success |-> TRUE, record_id |-> ins.record_id,
                            message |-> <<"created_empty_name", table>>]]

\* tools.confirm_create_with_corrected_field
confirm_create_with_corrected_field(db, table, data, field, corrected_value) ==
  create_record(db, table, DictSet(data, field, corrected_value))

\* variant: the update is re-invoked with the field-map as the user typed it
confirm_field_as_typed(db, table, record_id, field, corrected_value, data) ==
  update_record(db, table, record_id, data)

\* tools.confirm_field_correction
confirm_field_correction(db, table, record_id, field, corrected_value, data) ==
  update_record(db, table, record_id, DictSet(data, field, corrected_value))

(* ---------------------------- conversation ----------------------------- *)
VARIABLES
  store,                       \* table -> set of rows (the shared database)
  next_id,                     \* table -> next autoincrement identifier
  conversation_history,        \* DatabaseAgent.conversation_history
  pending_confirmation,        \* <<>> for None, else <<payload>>
  pending_field_confirmation,  \* <<>> for None, else <<payload>>
  user_input,                  \* text of the message the last process_message call handled
  response,                    \* what the last process_message call returned, and to whom
  tool_results,                \* dispatcher results produced during the last call
  pending_from,                \* sender whose message raised the pending operation
  resolved,                    \* some pending operation has been accepted or declined
  turns,                       \* process_message calls so far
  calls,                       \* tool invocations so far
  invocations,                 \* the tool invocations made during the last call
  inbox,                       \* webhook messages in arrival order, each with its task's position
  thoughts_log,                \* logs/thoughts.csv: whether it exists, and its rows
  writers,                     \* the log_thought calls made, each with its position
  reminders                    \* logs/reminders.csv, the clock and the add_reminder calls made

vars ==
  <<store, next_id, conversation_history, pending_confirmation,
    pending_field_confirmation, user_input, response, tool_results,
    pending_from, resolved, turns, calls, invocations, inbox, thoughts_log,
    writers, reminders>>

\* what neither the agent nor the dispatcher touches
Aside == <<inbox, thoughts_log, writers, reminders>>

\* datetime(year, month, day, hour, minute, second, microsecond)
datetime(year, month, day, hour, minute, second, microsecond) ==
  [year |-> year, month |-> month, day |-> day, hour |-> hour,
   minute |-> minute, second |-> second, microsecond |-> microsecond]

\* no webhook message has arrived, logs/thoughts.csv and logs/reminders.csv
\* are missing and neither log_thought nor add_reminder has been called
AsideInit ==
  /\ inbox = <<>>
  /\ thoughts_log = [exists |-> FALSE, rows |-> <<>>]
  /\ writers = <<>>
  /\ reminders = [now |-> datetime(2025, 1, 1, 0, 0, 0, 0), exists |-> FALSE,
                  rows |-> <<>>, returned |-> <<>>]

\* conversations served by the one server process
Senders == {"A", "B"}

\* A message keeps its class, whether it carries tool_calls, and what
\* json.loads makes of its content: <<>> when the content is not a JSON
\* object, <<dict>> when it is.
SystemMessage == [type |-> "system", tool_calls |-> FALSE, content |-> <<>>]

HumanMessage(content) == [type |-> "human", tool_calls |-> FALSE, content |-> content]

AIMessage(has_calls) == [type |-> "ai", tool_calls |-> has_calls, content |-> <<>>]

ToolMessage(result) == [type |-> "tool", tool_calls |-> FALSE, content |-> <<result>>]

\* DatabaseAgent._truncate_history: MAX_KEEP
MAX_KEEP == 16

\* variant: the last MAX_KEEP messages are kept whatever they are
TruncateToTail(h) ==
  IF Len(h) <= 1 + MAX_KEEP THEN h
  ELSE <<Head(h)>> \o SubSeq(h, Len(h) - MAX_KEEP + 1, Len(h))

\* DatabaseAgent._truncate_history, on a history h
TruncateHistory(h) ==
  IF Len(h) <= 1 \/ Len(h) <= 1 + MAX_KEEP THEN h
  ELSE LET msgs == Tail(h)
           \* 0-based start index into msgs
           start_idx == IF Len(msgs) - MAX_KEEP > 0 THEN Len(msgs) - MAX_KEEP ELSE 0
           tools == {i \in start_idx..(Len(msgs) - 1) : msgs[i + 1].type = "tool"}
           earliest == CHOOSE i \in tools : \A j \in tools : i <= j
           issuers == {i \in 0..(earliest - 1) :
                         msgs[i + 1].type = "ai" /\ msgs[i + 1].tool_calls}
           start == IF tools = {} \/ issuers = {} THEN start_idx
                    ELSE CHOOSE i \in issuers : \A j \in issuers : j <= i
       IN <<Head(h)>> \o SubSeq(msgs, start + 1, Len(msgs))

\* a parsed content that the scan accepts
Flagged(d) ==
  Truthy(d, "requires_confirmation") \/ Truthy(d, "requires_field_confirmation")

\* DatabaseAgent._extract_tool_result_from_messages: the latest message among
\* the last SCAN_WINDOW, of any class, whose content parses to a flagged
\* dict; <<>> stands for the {} returned when there is none
ExtractToolResult(messages) ==
  LET \* DatabaseAgent._extract_tool_result_from_messages: messages[-10:]
      SCAN_WINDOW == 10
  IN
  LET lo == IF Len(messages) > SCAN_WINDOW THEN Len(messages) - SCAN_WINDOW + 1 ELSE 1
      hits == {i \in lo..Len(messages) :
                 messages[i].content # <<>> /\ Flagged(messages[i].content[1])}
  IN IF hits = {} THEN <<>>
     ELSE <<messages[CHOOSE i \in hits : \A j \in hits : j <= i].content[1]>>

(* ------------------------------ user input ----------------------------- *)
\* A user input is its text and what json.loads makes of the text.
Text(chars) == [text |-> chars, json |-> <<>>]

ACCEPT_WORDS ==
  { <<"y", "e", "s">>, <<"y">>, <<"p", "r", "o", "c", "e", "e", "d">>,
    <<"o", "k">>, <<"c", "o", "n", "f", "i", "r", "m">> }

DECLINE_WORDS ==
  { <<"n", "o">>, <<"n">>, <<"c", "a", "n", "c", "e", "l">>,
    <<"a", "b", "o", "r", "t">> }

RESET_COMMANDS ==
  { <<"/", "r", "e", "s", "e", "t">>, <<"/", "c", "l", "e", "a", "r">>,
    <<"r", "e", "s", "e", "t">> }

\* not user_input.strip()
IsBlank(u) == strip(u.text) = <<>>

\* variant: the command test strips the text first
IsResetStripped(u) == strip(lower(u.text)) \in RESET_COMMANDS

\* user_input.lower() in ["/reset", "/clear", "reset"]
IsReset(u) == lower(u.text) \in RESET_COMMANDS

\* variant: the acceptance test does not trim the text
IsAcceptUntrimmed(u) == lower(u.text) \in ACCEPT_WORDS

\* user_input.lower().strip() in ['yes', 'y', 'proceed', 'ok', 'confirm']
IsAccept(u) == strip(lower(u.text)) \in ACCEPT_WORDS

\* variant: whatever is not an acceptance counts as a decline
IsDeclineElse(u) == ~IsAccept(u)

\* variant: the decline test does not fold case
IsDeclineCased(u) == strip(u.text) \in DECLINE_WORDS

\* user_input.lower().strip() in ['no', 'n', 'cancel', 'abort']
IsDecline(u) == strip(lower(u.text)) \in DECLINE_WORDS

(* ------------------------- values used as inputs ----------------------- *)
Acme == <<"A", "c", "m", "e">>

Bob == <<"B", "o", "b">>

Active == <<"A", "c", "t", "i", "v", "e">>

Archive == <<"A", "r", "c", "h", "i", "v", "e">>

Activ == <<"A", "c", "t", "i", "v">>

\* a tool invocation chosen by the LLM
Call(tool, table, record_id, data, field, value) ==
  [tool |-> tool, table |-> table, record_id |-> record_id, data |-> data,
   field |-> field, value |-> value]

\* the invocations the LLM chooses among: a sample of the tool catalog
\* database_tools with arguments that reach the outcomes of the create, update
\* and confirm tools
ToolCalls ==
  { Call("create_record", "clients", 0, [name |-> <<>>], "", <<>>),
    Call("create_record", "tasks", 0, [name |-> <<" ", " ">>], "", <<>>),
    Call("create_record", "clients", 0, [name |-> <<>>, status |-> Activ], "", <<>>),
    Call("create_record", "clients", 0, [name |-> Bob, status |-> Activ], "", <<>>),
    Call("update_record", "clients", 1, [status |-> Activ], "", <<>>),
    Call("update_record", "clients", 1, [status |-> Active], "", <<>>),
    Call("confirm_create_with_empty_name", "clients", 0, [name |-> <<>>], "", <<>>),
    Call("confirm_field_correction", "clients", 1, [status |-> Activ],
         "status", Active) }

\* ToolNode: run the tool a call names
Invoke(db, c) ==
  CASE c.tool = "create_record" -> create_record(db, c.table, c.data)
    [] c.tool = "update_record" -> update_record(db, c.table, c.record_id, c.data)
    [] c.tool = "delete_record" -> delete_record(db, c.table, c.record_id)
    [] c.tool = "read_record" -> read_record(db, c.table, c.record_id)
    [] c.tool = "confirm_create_with_empty_name" ->
         confirm_create_with_empty_name(db, c.table, c.data)
    [] c.tool = "confirm_create_with_corrected_field" ->
         confirm_create_with_corrected_field(db, c.table, c.data, c.field, c.value)
    [] c.tool = "confirm_field_correction" ->
         confirm_field_correction(db, c.table, c.record_id, c.field, c.value, c.data)

\* the agent/tools loop of the compiled graph for the calls the LLM makes in
\* one turn: each call adds the AI message that issues it and the tool
\* message that carries its result
RECURSIVE RunGraph(_, _)

\* the rest of the turn runs on the database the call left
RunRest(out, cs) ==
  LET \* the messages of a call and its result, put before those of the rest
      Prepend(result, rest) ==
        [db |-> rest.db,
         messages |-> <<AIMessage(TRUE), ToolMessage(result)>> \o rest.messages,
         results |-> <<result>> \o rest.results]
  IN
                    Prepend(out.result, RunGraph(out.db, cs))

RunGraph(db, cs) ==
  IF cs = <<>> THEN [db |-> db, messages |-> <<>>, results |-> <<>>]
  ELSE RunRest(Invoke(db, Head(cs)), Tail(cs))

\* sequences over S of length at most n
SeqsUpTo(S, n) == UNION {[1..k -> S] : k \in 0..n}

\* a user text that is itself a JSON object shaped like a dispatcher result
JsonText(d) == [text |-> <<"{", "}">>, json |-> <<d>>]

FieldQuestion(table, record_id, data) ==
  [success |-> FALSE, requires_field_confirmation |-> TRUE,
   pending_table |-> table, pending_record_id |-> record_id,
   pending_data |-> data, field |-> "status", user_value |-> Activ,
   suggested_value |-> Active,
   message |-> <<"invalid_value_did_you_mean", "status">>]

\* a request in plain words, sent while the agent is Idle
PlainRequests == { Text(<<"a", "d", "d", " ", "o", "n", "e">>) }

Requests ==
  LET \* requests whose text is a JSON object shaped like the result update_record
      \* and create_record return for a field that fails validation
      JsonRequests ==
        { JsonText(FieldQuestion("clients", 1, [status |-> Activ])),
          JsonText(FieldQuestion("clients", 0, [name |-> Bob, status |-> Activ])),
          JsonText(FieldQuestion("clients", 0, [name |-> <<>>, status |-> Activ])) }
  IN
            PlainRequests \cup JsonRequests

\* replies and commands
Replies ==
  { Text(<<" ", "O", "K", " ">>), Text(<<"N", "o">>),
    Text(<<"m", "a", "y", "b", "e">>), Text(<<" ", "r", "e", "s", "e", "t">>),
    Text(<<"/", "R", "e", "s", "e", "t">>), Text(<<"/", "c", "l", "e", "a", "r">>),
    Text(<<"R", "E", "S", "E", "T">>), Text(<<" ">>) }

\* the messages a user sends
Inputs == Replies \cup Requests

(* ------------------------- DatabaseAgent ------------------------------- *)
\* the string process_message returns, by the template that produced it and
\* the values the template interpolates, and the sender it is sent back to
Reply(to, kind, table, field, suggested_value, record_id, message) ==
  [to |-> to, kind |-> kind, table |-> table, field |-> field,
   suggested_value |-> suggested_value, record_id |-> record_id,
   message |-> message]

db == [rows |-> store, next_id |-> next_id]

\* variant: a new request is let through while an empty-name create is pending
IdleIgnoringEmptyName == pending_field_confirmation = <<>>

Idle == pending_confirmation = <<>> /\ pending_field_confirmation = <<>>

\* the reply built from the result of a confirmed operation
ResultReply(to, result) ==
  IF Truthy(result, "success")
  THEN Reply(to, "success", "", "", None,
             IF "record_id" \in DOMAIN result THEN result["record_id"] ELSE 0,
             result["message"])
  ELSE Reply(to, "error", "", "", None, 0,
             IF "error" \in DOMAIN result THEN result["error"]
             ELSE <<"Unknown error occurred">>)

Init ==
  /\ store = [t \in MODEL_MAP |->
                IF t = "clients"
                THEN {[id |-> 1, name |-> Acme, type |-> NULL,
                       status |-> Archive]} ELSE {}]
  /\ next_id = [t \in MODEL_MAP |-> IF t = "clients" THEN 2 ELSE 1]
  /\ conversation_history = <<SystemMessage>>
  /\ pending_confirmation = <<>>
  /\ pending_field_confirmation = <<>>
  /\ response = Reply("", "none", "", "", None, 0, <<>>)
  /\ tool_results = <<>>
  /\ pending_from = ""
  /\ user_input = <<>>
  /\ resolved = FALSE
  /\ turns = 0
  /\ calls = 0
  /\ invocations = <<>>
  /\ AsideInit

\* process_message, lines 485-486: blank input
EmptyInput(from, u) ==
  /\ turns < MaxTurns
  /\ user_input' = u.text
  /\ IsBlank(u)
  /\ response' = Reply(from, "provide_message", "", "", None, 0, <<>>)
  /\ tool_results' = <<>>
  /\ UNCHANGED resolved
  /\ turns' = turns + 1
  /\ invocations' = <<>>
  /\ UNCHANGED <<store, next_id, conversation_history, pending_confirmation,
                 pending_field_confirmation, pending_from, calls>>

\* process_message, lines 489-490, and DatabaseAgent.reset
\* variant: reset leaves a pending field correction in place
ResetKeepingQuestion(from, u) ==
  /\ turns < MaxTurns
  /\ user_input' = u.text
  /\ ~IsBlank(u) /\ IsReset(u)
  /\ conversation_history' = <<SystemMessage>>
  /\ pending_confirmation' = <<>>
  /\ pending_from' = ""
  /\ response' = Reply(from, "reset", "", "", None, 0, <<>>)
  /\ tool_results' = <<>>
  /\ UNCHANGED resolved
  /\ turns' = turns + 1
  /\ invocations' = <<>>
  /\ UNCHANGED <<store, next_id, calls, pending_field_confirmation>>

ResetCommand(from, u) ==
  /\ turns < MaxTurns
  /\ user_input' = u.text
  /\ ~IsBlank(u) /\ IsReset(u)
  /\ conversation_history' = <<SystemMessage>>
  /\ pending_confirmation' = <<>>
  /\ pending_field_confirmation' = <<>>
  /\ pending_from' = ""
  /\ response' = Reply(from, "reset", "", "", None, 0, <<>>)
  /\ tool_results' = <<>>
  /\ UNCHANGED resolved
  /\ turns' = turns + 1
  /\ invocations' = <<>>
  /\ UNCHANGED <<store, next_id, calls>>

\* process_message, lines 493-535: acceptance of a field correction
AcceptFieldCorrection(from, u) ==
  /\ turns < MaxTurns
  /\ user_input' = u.text
  /\ ~IsBlank(u) /\ ~IsReset(u)
  /\ pending_field_confirmation # <<>>
  /\ IsAccept(u)
  /\ \E out \in
       { LET pending_data == pending_field_confirmation[1]
         IN IF TruthyInt(pending_data, "pending_record_id")
            THEN confirm_field_correction(
                   db, pending_data["table"], pending_data["pending_record_id"],
                   pending_data["field"], pending_data["suggested_value"],
                   pending_data["data"])
            ELSE confirm_create_with_corrected_field(
                   db, pending_data["table"], pending_data["data"],
                   pending_data["field"], pending_data["suggested_value"]) } :
        /\ pending_field_confirmation' = <<>>
        /\ store' = out.db.rows
        /\ next_id' = out.db.next_id
        /\ conversation_history' =
             conversation_history \o <<HumanMessage(<<>>), AIMessage(FALSE)>>
        /\ response' = ResultReply(from, out.result)
        /\ tool_results' = <<out.result>>
        /\ invocations' =
             LET pending_data == pending_field_confirmation[1]
             IN << IF TruthyInt(pending_data, "pending_record_id")
                   THEN Call("confirm_field_correction", pending_data["table"],
                             pending_data["pending_record_id"], pending_data["data"],
                             pending_data["field"], pending_data["suggested_value"])
                   ELSE Call("confirm_create_with_corrected_field",
                             pending_data["table"], 0, pending_data["data"],
                             pending_data["field"], pending_data["suggested_value"]) >>
  /\ pending_from' = ""
  /\ resolved' = TRUE
  /\ turns' = turns + 1
  /\ UNCHANGED <<pending_confirmation, calls>>

\* process_message, lines 537-543: decline of a field correction
DeclineFieldCorrection(from, u) ==
  /\ turns < MaxTurns
  /\ user_input' = u.text
  /\ ~IsBlank(u) /\ ~IsReset(u)
  /\ pending_field_confirmation # <<>>
  /\ ~IsAccept(u) /\ IsDecline(u)
  /\ pending_field_confirmation' = <<>>
  /\ conversation_history' =
       conversation_history \o <<HumanMessage(<<>>), AIMessage(FALSE)>>
  /\ response' = Reply(from, "cancelled_field", "", "", None, 0, <<>>)
  /\ tool_results' = <<>>
  /\ pending_from' = ""
  /\ resolved' = TRUE
  /\ turns' = turns + 1
  /\ invocations' = <<>>
  /\ UNCHANGED <<store, next_id, pending_confirmation, calls>>

\* process_message, lines 544-547: any other reply to a field correction
RepromptFieldCorrection(from, u) ==
  /\ turns < MaxTurns
  /\ user_input' = u.text
  /\ ~IsBlank(u) /\ ~IsReset(u)
  /\ pending_field_confirmation # <<>>
  /\ ~IsAccept(u) /\ ~IsDecline(u)
  /\ response' = Reply(from, "reprompt_field", "",
                       pending_field_confirmation[1]["field"],
                       pending_field_confirmation[1]["suggested_value"], 0, <<>>)
  /\ tool_results' = <<>>
  /\ UNCHANGED resolved
  /\ turns' = turns + 1
  /\ invocations' = <<>>
  /\ UNCHANGED <<store, next_id, conversation_history, pending_confirmation,
                 pending_field_confirmation, pending_from, calls>>

\* process_message, lines 550-576: acceptance of an empty-name create
AcceptEmptyName(from, u) ==
  /\ turns < MaxTurns
  /\ user_input' = u.text
  /\ ~IsBlank(u) /\ ~IsReset(u)
  /\ pending_field_confirmation = <<>>
  /\ pending_confirmation # <<>>
  /\ IsAccept(u)
  /\ \E out \in
       { LET pending_data == pending_confirmation[1]
         IN confirm_create_with_empty_name(
              db, pending_data["table"], pending_data["data"]) } :
        /\ pending_confirmation' = <<>>
        /\ store' = out.db.rows
        /\ next_id' = out.db.next_id
        /\ conversation_history' =
             conversation_history \o <<HumanMessage(<<>>), AIMessage(FALSE)>>
        /\ response' = ResultReply(from, out.result)
        /\ tool_results' = <<out.result>>
        /\ invocations' =
             << Call("confirm_create_with_empty_name",
                     pending_confirmation[1]["table"], 0,
                     pending_confirmation[1]["data"], "", <<>>) >>
  /\ pending_from' = ""
  /\ resolved' = TRUE
  /\ turns' = turns + 1
  /\ UNCHANGED <<pending_field_confirmation, calls>>

\* process_message, lines 578-584: decline of an empty-name create
DeclineEmptyName(from, u) ==
  /\ turns < MaxTurns
  /\ user_input' = u.text
  /\ ~IsBlank(u) /\ ~IsReset(u)
  /\ pending_field_confirmation = <<>>
  /\ pending_confirmation # <<>>
  /\ ~IsAccept(u) /\ IsDecline(u)
  /\ pending_confirmation' = <<>>
  /\ conversation_history' =
       conversation_history \o <<HumanMessage(<<>>), AIMessage(FALSE)>>
  /\ response' = Reply(from, "cancelled_empty", "", "", None, 0, <<>>)
  /\ tool_results' = <<>>
  /\ pending_from' = ""
  /\ resolved' = TRUE
  /\ turns' = turns + 1
  /\ invocations' = <<>>
  /\ UNCHANGED <<store, next_id, pending_field_confirmation, calls>>

\* process_message, lines 585-587: any other reply to an empty-name create
RepromptEmptyName(from, u) ==
  /\ turns < MaxTurns
  /\ user_input' = u.text
  /\ ~IsBlank(u) /\ ~IsReset(u)
  /\ pending_field_confirmation = <<>>
  /\ pending_confirmation # <<>>
  /\ ~IsAccept(u) /\ ~IsDecline(u)
  /\ response' = Reply(from, "reprompt_empty", pending_confirmation[1]["table"],
                       "", None, 0, <<>>)
  /\ tool_results' = <<>>
  /\ UNCHANGED resolved
  /\ turns' = turns + 1
  /\ invocations' = <<>>
  /\ UNCHANGED <<store, next_id, conversation_history, pending_confirmation,
                 pending_field_confirmation, pending_from, calls>>

\* process_message, lines 589-643: a new request handed to the LLM graph,
\* which makes some tool invocations cs and then answers in plain text
NewRequest(from, u) ==
  /\ turns < MaxTurns
  /\ user_input' = u.text
  /\ ~IsBlank(u) /\ ~IsReset(u)
  /\ Idle
  /\ \E cs \in SeqsUpTo(ToolCalls, MaxCalls - calls) :
     \E run \in {RunGraph(db, cs)} :
     \E history \in
       {TruncateHistory(conversation_history \o <<HumanMessage(u.json)>>
                          \o run.messages \o <<AIMessage(FALSE)>>)} :
     \E found \in {ExtractToolResult(history)} :
     LET tool_result == found[1]
     IN /\ store' = run.db.rows
        /\ next_id' = run.db.next_id
        /\ conversation_history' = history
        /\ tool_results' = run.results
        /\ invocations' = cs
        /\ IF found # <<>> /\ Truthy(tool_result, "requires_field_confirmation")
           THEN /\ pending_field_confirmation' =
                     << IF TruthyInt(tool_result, "pending_record_id")
                        THEN [table |-> tool_result["pending_table"],
                              data |-> tool_result["pending_data"],
                              field |-> tool_result["field"],
                              user_value |-> tool_result["user_value"],
                              suggested_value |-> tool_result["suggested_value"],
                              pending_record_id |-> tool_result["pending_record_id"]]
                        ELSE [table |-> tool_result["pending_table"],
                              data |-> tool_result["pending_data"],
                              field |-> tool_result["field"],
                              user_value |-> tool_result["user_value"],
                              suggested_value |-> tool_result["suggested_value"]] >>
                /\ pending_confirmation' = pending_confirmation
                /\ pending_from' = from
                /\ response' = Reply(from, "ask_field", tool_result["pending_table"],
                                     tool_result["field"],
                                     tool_result["suggested_value"], 0,
                                     tool_result["message"])
           ELSE IF found # <<>> /\ Truthy(tool_result, "requires_confirmation")
           THEN /\ pending_confirmation' =
                     << [table |-> tool_result["pending_table"],
                         data |-> tool_result["pending_data"]] >>
                /\ pending_field_confirmation' = pending_field_confirmation
                /\ pending_from' = from
                /\ response' = Reply(from, "ask_empty", tool_result["pending_table"],
                                     "", None, 0, tool_result["message"])
           ELSE /\ UNCHANGED <<pending_confirmation, pending_field_confirmation,
                               pending_from>>
                /\ response' = Reply(from, "answer", "", "", None, 0, <<>>)
        /\ calls' = calls + Len(cs)
  /\ UNCHANGED resolved
  /\ turns' = turns + 1

\* variant: the message that failed stays in the history
KeepFailed(history) == history

\* if self.conversation_history and isinstance(self.conversation_history[-1],
\* HumanMessage): self.conversation_history.pop()
RemoveFailed(history) ==
  IF history # <<>> /\ history[Len(history)].type = "human"
  THEN SubSeq(history, 1, Len(history) - 1)
  ELSE history

\* process_message, lines 592-594 and 645-650: app.invoke raises after the
\* graph has run the tool invocations cs; the user message is popped again
NewRequestRaises(from, u) ==
  /\ turns < MaxTurns
  /\ user_input' = u.text
  /\ ~IsBlank(u) /\ ~IsReset(u)
  /\ Idle
  /\ \E cs \in SeqsUpTo(ToolCalls, MaxCalls - calls) :
     \E run \in {RunGraph(db, cs)} :
        /\ store' = run.db.rows
        /\ next_id' = run.db.next_id
        /\ tool_results' = run.results
        /\ invocations' = cs
        /\ calls' = calls + Len(cs)
  /\ response' = Reply(from, "exception", "", "", None, 0, <<>>)
  /\ UNCHANGED resolved
  /\ turns' = turns + 1
  /\ conversation_history' =
       RemoveFailed(conversation_history \o <<HumanMessage(u.json)>>)
  /\ UNCHANGED <<pending_confirmation, pending_field_confirmation,
                 pending_from>>

\* whatsapp_server.process_whatsapp_message / chat_endpoint, server.py and
\* main.py: every transport hands the text of any sender to the one agent
Next ==
  \E from \in Senders, u \in Inputs :
    \/ EmptyInput(from, u) /\ UNCHANGED Aside
    \/ ResetCommand(from, u) /\ UNCHANGED Aside
    \/ AcceptFieldCorrection(from, u) /\ UNCHANGED Aside
    \/ DeclineFieldCorrection(from, u) /\ UNCHANGED Aside
    \/ RepromptFieldCorrection(from, u) /\ UNCHANGED Aside
    \/ AcceptEmptyName(from, u) /\ UNCHANGED Aside
    \/ DeclineEmptyName(from, u) /\ UNCHANGED Aside
    \/ RepromptEmptyName(from, u) /\ UNCHANGED Aside
    \/ u \in Requests /\ NewRequest(from, u) /\ UNCHANGED Aside
    \/ u \in Requests /\ NewRequestRaises(from, u) /\ UNCHANGED Aside

Spec == Init /\ [][Next]_vars

\* The same server when no user text is itself a JSON object.  No message
\* content then carries requires_field_confirmation (validate_field_value
\* raises before update_record can build that result, and create_record
\* validates only the name), so the field-correction branch is never entered.
PlainNext ==
  \E from \in Senders, u \in Replies \cup PlainRequests :
    \/ EmptyInput(from, u) /\ UNCHANGED Aside
    \/ ResetCommand(from, u) /\ UNCHANGED Aside
    \/ AcceptEmptyName(from, u) /\ UNCHANGED Aside
    \/ DeclineEmptyName(from, u) /\ UNCHANGED Aside
    \/ RepromptEmptyName(from, u) /\ UNCHANGED Aside
    \/ u \in PlainRequests /\ NewRequest(from, u) /\ UNCHANGED Aside
    \/ u \in PlainRequests /\ NewRequestRaises(from, u) /\ UNCHANGED Aside

PlainSpec == Init /\ [][PlainNext]_vars

(* ----------------- the operation dispatcher on its own ------------------ *)
Familly == <<"F", "a", "m", "i", "l", "l", "y">>

NoFields == [k \in {} |-> <<>>]

\* table names: two known tables and one that MODEL_MAP lacks
TableNames == {"clients", "projects", "widgets"}

\* record identifiers: one that exists from the start, one that a create may
\* assign, and one that is never assigned
RecordIds == {1, 2, 9}

\* field-maps of create and update requests
FieldMaps ==
  LET \* The functions of tools.py called one after another on the store, with
      \* arguments drawn from the sets below.
      ActiveLower == <<"a", "c", "t", "i", "v", "e">>
  IN
  { NoFields, [name |-> <<>>], [name |-> <<" ">>], [name |-> Bob],
    [name |-> Bob, status |-> Active], [name |-> Bob, status |-> Activ],
    [status |-> ActiveLower], [name |-> <<>>, status |-> Activ],
    [type |-> Familly, status |-> Activ] }

\* a call of list_records or search_records_by_name
Query(tool, table, name_query, limit, min_similarity, filters) ==
  [tool |-> tool, table |-> table, name_query |-> name_query, limit |-> limit,
   min_similarity |-> min_similarity, filters |-> filters]

\* one call of a dispatcher function and what it left behind
Dispatched(call, out) ==
  /\ calls < MaxOps
  /\ calls' = calls + 1
  /\ invocations' = <<call>>
  /\ tool_results' = <<out.result>>
  /\ store' = out.db.rows
  /\ next_id' = out.db.next_id
  /\ UNCHANGED <<conversation_history, pending_confirmation,
                 pending_field_confirmation, user_input, response,
                 pending_from, resolved, turns>>
  /\ UNCHANGED Aside

CallCreate(table, data) ==
  Dispatched(Call("create_record", table, 0, data, "", <<>>),
             create_record(db, table, data))

CallRead(table, record_id) ==
  Dispatched(Call("read_record", table, record_id, NoFields, "", <<>>),
             read_record(db, table, record_id))

CallUpdate(table, record_id, data) ==
  Dispatched(Call("update_record", table, record_id, data, "", <<>>),
             update_record(db, table, record_id, data))

CallDelete(table, record_id) ==
  Dispatched(Call("delete_record", table, record_id, NoFields, "", <<>>),
             delete_record(db, table, record_id))

CallList(table, limit, filters) ==
  Dispatched(Query("list_records", table, <<>>, limit, 0, filters),
             list_records(db, table, limit, filters))

CallSearch(table, name_query, limit, min_similarity) ==
  Dispatched(Query("search_records_by_name", table, name_query, limit,
                   min_similarity, NoFields),
             search_records_by_name(db, table, name_query, limit, min_similarity))

CallConfirmEmptyName(table, data) ==
  Dispatched(Call("confirm_create_with_empty_name", table, 0, data, "", <<>>),
             confirm_create_with_empty_name(db, table, data))

CallConfirmCorrectedCreate(table, data, field, corrected_value) ==
  Dispatched(Call("confirm_create_with_corrected_field", table, 0, data, field,
                  corrected_value),
             confirm_create_with_corrected_field(db, table, data, field,
                                                 corrected_value))

CallConfirmFieldCorrection(table, record_id, data, field, corrected_value) ==
  Dispatched(Call("confirm_field_correction", table, record_id, data, field,
                  corrected_value),
             confirm_field_correction(db, table, record_id, field,
                                      corrected_value, data))

DispatchNext ==
  \E table \in TableNames :
    \/ \E data \in FieldMaps : CallCreate(table, data)
    \/ \E record_id \in RecordIds : CallRead(table, record_id)
    \/ \E record_id \in RecordIds, data \in FieldMaps :
         CallUpdate(table, record_id, data)
    \/ \E record_id \in RecordIds : CallDelete(table, record_id)
    \/ \E limit \in {-1, 0, 1, 101}, filters \in {NoFields, [status |-> Archive]} :
         CallList(table, limit, filters)
    \/ \E name_query \in {Bob, <<"a", "c">>}, limit \in {-1, 1, 101},
          min_similarity \in {60, 100} :
         CallSearch(table, name_query, limit, min_similarity)
    \/ \E data \in FieldMaps : CallConfirmEmptyName(table, data)
    \/ \E data \in {[name |-> Bob, status |-> Activ],
                     [name |-> <<>>, status |-> Activ]} :
         CallConfirmCorrectedCreate(table, data, "status", Active)
    \/ \E record_id \in RecordIds :
         CallConfirmFieldCorrection(table, record_id, [status |-> Activ],
                                    "status", Active)

DispatchSpec == Init /\ [][DispatchNext]_vars

(* ------------------ listing and searching on their own ------------------ *)
\* list_records and search_records_by_name called on a table whose content
\* is drawn from the sets below.
\* rows of the table, when it is not the crowded one
MaxRows == 3

Rob == <<"R", "o", "b">>

\* the state in which the clients table holds the drawn content
QueryInit ==
  LET \* CROWD clients called Bob
      Crowded ==
        LET \* rows of the crowded table: one more than the cap of 100 records
            CROWD == 101
        IN
        {[id |-> i, name |-> Bob, type |-> NULL, status |-> Active] : i \in 1..CROWD}
  IN
  LET \* the tables of n clients with identifiers 1..n
      Tables(n) ==
        LET \* name and status of a row: names that score differently against the
            \* query "Bob", one that scores nothing, and none
            RowKinds ==
              { [name |-> Bob, status |-> Active], [name |-> Bob, status |-> Archive],
                [name |-> Rob, status |-> Active], [name |-> Acme, status |-> Archive],
                [name |-> NULL, status |-> Active] }
        IN
        {{[id |-> i, name |-> kinds[i].name, type |-> NULL,
           status |-> kinds[i].status] : i \in 1..n}
           : kinds \in [1..n -> RowKinds]}
  IN
  /\ \E rows \in UNION {Tables(n) : n \in 0..MaxRows} \cup {Crowded} :
       /\ store = [t \in MODEL_MAP |-> IF t = "clients" THEN rows ELSE {}]
       /\ next_id = [t \in MODEL_MAP |->
                       IF t = "clients" THEN Cardinality(rows) + 1 ELSE 1]
  /\ conversation_history = <<SystemMessage>>
  /\ pending_confirmation = <<>>
  /\ pending_field_confirmation = <<>>
  /\ response = Reply("", "none", "", "", None, 0, <<>>)
  /\ tool_results = <<>>
  /\ pending_from = ""
  /\ user_input = <<>>
  /\ resolved = FALSE
  /\ turns = 0
  /\ calls = 0
  /\ invocations = <<>>
  /\ AsideInit

\* one call of list_records or search_records_by_name on the drawn table
QueryNext ==
  \/ \E limit \in ({-1, 0, 1, 2, 101}),
        filters \in {NoFields, [status |-> Archive], [priority |-> (<<"P", "1">>)],
                     [name |-> Bob, status |-> Active]} :
       calls = 0 /\ CallList("clients", limit, filters)
  \/ \E name_query \in {Bob, (<<"z", "z">>)}, limit \in ({-1, 0, 1, 2, 101}),
        min_similarity \in {0, 60, 100} :
       calls = 0 /\ CallSearch("clients", name_query, limit, min_similarity)

QuerySpec == QueryInit /\ [][QueryNext]_vars

(* --------------------- history truncation on its own -------------------- *)
\* _truncate_history applied once to a history drawn from the set below.
\* messages after the system prompt in the longest history drawn
MaxHistory == 21

\* the message sequences of at most n messages that exchanges build up
RECURSIVE ExchangesUpTo(_)
ExchangesUpTo(n) ==
  LET \* what one exchange appends to the history: the user's message and the
      \* answer, with the tool invocations and their results in between
      Exchanges ==
        { <<HumanMessage(<<>>), AIMessage(FALSE)>>,
          <<HumanMessage(<<>>), AIMessage(TRUE), ToolMessage(Failure("not_found")),
            AIMessage(FALSE)>>,
          <<HumanMessage(<<>>), AIMessage(TRUE), ToolMessage(Failure("not_found")),
            ToolMessage(Failure("not_found")), AIMessage(FALSE)>> }
  IN
  {<<>>} \cup UNION {{e \o h : h \in ExchangesUpTo(n - Len(e))}
                      : e \in {x \in Exchanges : Len(x) <= n}}

\* the state in which the agent holds the drawn history
TruncateInit ==
  LET \* the histories process_message truncates: the system prompt and the
      \* exchanges so far, the one just completed included
      Histories ==
        {<<SystemMessage>> \o h : h \in ExchangesUpTo(MaxHistory)}
  IN
  /\ store = [t \in MODEL_MAP |->
                IF t = "clients"
                THEN {[id |-> 1, name |-> Acme, type |-> NULL,
                       status |-> Archive]} ELSE {}]
  /\ next_id = [t \in MODEL_MAP |-> IF t = "clients" THEN 2 ELSE 1]
  /\ conversation_history \in Histories
  /\ pending_confirmation = <<>>
  /\ pending_field_confirmation = <<>>
  /\ response = Reply("", "none", "", "", None, 0, <<>>)
  /\ tool_results = <<>>
  /\ pending_from = ""
  /\ user_input = <<>>
  /\ resolved = FALSE
  /\ turns = 0
  /\ calls = 0
  /\ invocations = <<>>
  /\ AsideInit

\* self._truncate_history()
Truncate ==
  /\ calls = 0
  /\ calls' = 1
  /\ invocations' = <<Call("_truncate_history", "", 0, NoFields, "", <<>>)>>
  /\ conversation_history' = TruncateHistory(conversation_history)
  /\ UNCHANGED <<store, next_id, pending_confirmation,
                 pending_field_confirmation, user_input, response,
                 tool_results, pending_from, resolved, turns>>
  /\ UNCHANGED Aside

TruncateSpec == TruncateInit /\ [][Truncate]_vars

(* -------------------- the field validator on its own -------------------- *)
\* validate_field_value applied once to arguments drawn from the sets below.
\* length up to which every casing of a legal value is among the arguments
MaxCased == 4

\* the upper-case form of one character
UpperChar(c) ==
  IF c = "ü" THEN "Ü"
  ELSE IF \E u \in DOMAIN LowerOf : LowerOf[u] = c
  THEN CHOOSE u \in DOMAIN LowerOf : LowerOf[u] = c
  ELSE c

\* every way of writing s with each character in lower or upper case
RECURSIVE Casings(_)
Casings(s) ==
  IF s = <<>> THEN {<<>>}
  ELSE {<<c>> \o rest : c \in {LowerChar(Head(s)), UpperChar(Head(s))},
                        rest \in Casings(Tail(s))}

\* the state in which validate_field_value(table, field, value) is about to
\* be called
ValidateInit ==
  LET \* field arguments: enumerated fields and fields no table enumerates
      ValidatorFields == {"status", "priority", "type", "days", "name", "notes"}
  IN
  LET \* table arguments: the tables with rules, two known tables without rules
      \* and an unknown one
      ValidatorTables ==
        DOMAIN VALID_STATUS \cup {"users", "meeting_transcripts", "widgets"}
  IN
  LET \* value arguments: each legal value as declared, in lower and in upper
      \* case, the short ones in every casing, and strings that are no legal value
      ValidatorValues ==
        LET Xyz == <<"x", "y", "z">>
        IN
        LET Donee == <<"d", "o", "n", "e", "e">>
        IN
        LET \* the legal values of every enumerated field of every table
            LegalValues ==
              UNION {UNION {{VALID_STATUS[t][f][i] : i \in 1..Len(VALID_STATUS[t][f])}
                             : f \in DOMAIN VALID_STATUS[t]}
                       : t \in DOMAIN VALID_STATUS}
        IN
        LET \* the upper-case form of a string
            upper(s) == [i \in 1..Len(s) |-> UpperChar(s[i])]
        IN
        LegalValues
          \cup {lower(v) : v \in LegalValues} \cup {upper(v) : v \in LegalValues}
          \cup UNION {Casings(v) : v \in {w \in LegalValues : Len(w) <= MaxCased}}
          \cup {Donee, Activ, Familly, Xyz, Bob, <<>>}
  IN
  /\ store = [t \in MODEL_MAP |->
                IF t = "clients"
                THEN {[id |-> 1, name |-> Acme, type |-> NULL,
                       status |-> Archive]} ELSE {}]
  /\ next_id = [t \in MODEL_MAP |-> IF t = "clients" THEN 2 ELSE 1]
  /\ conversation_history = <<SystemMessage>>
  /\ pending_confirmation = <<>>
  /\ pending_field_confirmation = <<>>
  /\ response = Reply("", "none", "", "", None, 0, <<>>)
  /\ tool_results = <<>>
  /\ pending_from = ""
  /\ user_input = <<>>
  /\ resolved = FALSE
  /\ turns = 0
  /\ calls = 0
  /\ \E table \in ValidatorTables, field \in ValidatorFields,
        value \in ValidatorValues :
       invocations = <<Call("validate_field_value", table, 0, NoFields,
                            field, value)>>
  /\ AsideInit

\* the call returns (or raises); its outcome is kept in tool_results
Validate ==
  /\ calls = 0
  /\ Len(invocations) = 1
  /\ invocations[1].tool = "validate_field_value"
  /\ calls' = 1
  /\ tool_results' = <<validate_field_value(invocations[1].table,
                                            invocations[1].field,
                                            invocations[1].value)>>
  /\ UNCHANGED <<store, next_id, conversation_history, pending_confirmation,
                 pending_field_confirmation, user_input, response,
                 pending_from, resolved, turns, invocations>>
  /\ UNCHANGED Aside

ValidateSpec == ValidateInit /\ [][Validate]_vars

(* ======================= the claims of the spec ======================== *)
\* the vocabularies of spec section 4.3 and the commands of process_message,
\* stated on the text of a message
AcceptanceVocabulary ==
  { <<"y", "e", "s">>, <<"y">>, <<"p", "r", "o", "c", "e", "e", "d">>,
    <<"o", "k">>, <<"c", "o", "n", "f", "i", "r", "m">> }

DeclineVocabulary ==
  { <<"n", "o">>, <<"n">>, <<"c", "a", "n", "c", "e", "l">>,
    <<"a", "b", "o", "r", "t">> }

SaysAccept(text) == strip(lower(text)) \in AcceptanceVocabulary

SaysDecline(text) == strip(lower(text)) \in DeclineVocabulary

SaysReset(text) ==
  lower(text) \in { <<"/", "r", "e", "s", "e", "t">>,
                    <<"/", "c", "l", "e", "a", "r">>, <<"r", "e", "s", "e", "t">> }

BlankText(text) == strip(text) = <<>>

\* the step is one process_message call
Stepped == turns' = turns + 1

AwaitingFieldCorrectionConfirm == pending_field_confirmation # <<>>

AwaitingEmptyNameConfirm ==
  pending_field_confirmation = <<>> /\ pending_confirmation # <<>>

\* a row without a usable name
BlankRow(r) == r.name = NULL \/ strip(r.name) = <<>>

\* the last call produced a dispatcher result that asks for a confirmation
FlaggedIn(results) == {i \in 1..Len(results) : Flagged(results[i])}

\* C1: a pending confirmation raised by a request of conversation A is never
\* accepted, declined or re-prompted by a message of conversation B.
C1_CrossConversationIsolation ==
  [][ (Stepped /\ ~Idle
       /\ response'.kind \in {"success", "error", "cancelled_field",
                              "cancelled_empty", "reprompt_field",
                              "reprompt_empty"})
      => response'.to = pending_from ]_vars

\* C2: a row with a blank name, or with an enumerated value outside its
\* enumeration, enters the store only in the step that handles the human's
\* acceptance of the pending question, whatever tools the LLM invokes.
C2_NoWriteBeforeAcceptance ==
  [][ \A t \in MODEL_MAP : \A r \in store'[t] \ store[t] :
        (BlankRow(r) \/ ~EnumOk(t, r.status))
        => (~Idle /\ SaysAccept(user_input')) ]_vars

\* C3: a step that accepts or declines a pending operation ends Idle, and
\* from then on the agent leaves Idle only in a turn one of whose own tool
\* results carries requires_confirmation or requires_field_confirmation.
C3_ResolvedStaysIdle ==
  [][ /\ (Stepped /\ ~Idle /\ (SaysAccept(user_input') \/ SaysDecline(user_input')))
         => Idle'
      /\ (resolved /\ Idle /\ ~Idle') => FlaggedIn(tool_results') # {} ]_vars

\* the re-prompt names the question that is pending
RepromptsSameQuestion ==
  IF pending_field_confirmation # <<>>
  THEN /\ response'.kind = "reprompt_field"
       /\ response'.field = pending_field_confirmation[1]["field"]
       /\ response'.suggested_value =
            pending_field_confirmation[1]["suggested_value"]
  ELSE /\ response'.kind = "reprompt_empty"
       /\ response'.table = pending_confirmation[1]["table"]

\* the reply changed nothing and did not reach the LLM graph
NothingAdvanced ==
  /\ UNCHANGED <<pending_confirmation, pending_field_confirmation,
                 conversation_history, store, next_id, calls>>
  /\ tool_results' = <<>>

\* C4 as stated: while a confirmation is pending, every reply in neither
\* vocabulary leaves pending operation, history and store unchanged, does not
\* invoke the LLM and returns a re-prompt naming the pending question.
C4_OtherReplyReprompts ==
  [][ (Stepped /\ ~Idle /\ ~SaysAccept(user_input') /\ ~SaysDecline(user_input'))
      => (NothingAdvanced /\ RepromptsSameQuestion) ]_vars

\* C4 as amended: the same for every reply in neither vocabulary that is not
\* blank and not a reset command.
C4_OtherReplyRepromptsAmended ==
  [][ (Stepped /\ ~Idle /\ ~SaysAccept(user_input') /\ ~SaysDecline(user_input')
       /\ ~BlankText(user_input') /\ ~SaysReset(user_input'))
      => (NothingAdvanced /\ RepromptsSameQuestion) ]_vars

\* "maybe" was sent while a field correction was pending
C4_Witness ==
  /\ AwaitingFieldCorrectionConfirm
  /\ user_input = <<"m", "a", "y", "b", "e">>
  /\ response.kind = "reprompt_field"

\* C5 as stated: while a confirmation is pending, after any message outside
\* the two vocabularies a pending operation is still present.
C5_OnlyVocabularyResolves ==
  [][ (Stepped /\ ~Idle /\ ~SaysAccept(user_input') /\ ~SaysDecline(user_input'))
      => ~Idle' ]_vars

\* C5 as amended: after any message outside the two vocabularies that is not
\* a reset command, both pending slots are what they were.
C5_OnlyVocabularyOrResetResolves ==
  [][ (Stepped /\ ~Idle /\ ~SaysAccept(user_input') /\ ~SaysDecline(user_input')
       /\ ~SaysReset(user_input'))
      => UNCHANGED <<pending_confirmation, pending_field_confirmation>> ]_vars

\* " reset" (not a reset command: the command test does not strip) was sent
\* while an empty-name create was pending, and it is still pending
C5_Witness ==
  /\ AwaitingEmptyNameConfirm
  /\ user_input = <<" ", "r", "e", "s", "e", "t">>
  /\ response.kind = "reprompt_empty"

\* C6: at most one pending operation exists.
C6_AtMostOnePending ==
  ~(pending_confirmation # <<>> /\ pending_field_confirmation # <<>>)

\* one turn left both kinds of flagged content in the scanned history, and
\* one pending operation was installed
C6_Witness ==
  /\ ~Idle
  /\ \E i, j \in 1..Len(conversation_history) :
       /\ conversation_history[i].content # <<>>
       /\ conversation_history[j].content # <<>>
       /\ Truthy(conversation_history[i].content[1], "requires_confirmation")
       /\ Truthy(conversation_history[j].content[1], "requires_field_confirmation")

\* the store takes the field-map: the table exists, its model class has
\* every column, and the status (given or defaulted) is a label of its Enum
StoreTakes(table, data) ==
  /\ table \in MODEL_MAP
  /\ Accepts(table, data)
  /\ EnumOk(table, IF "status" \in DOMAIN data THEN data["status"]
                   ELSE StatusDefault(table))
  /\ TypeOk(table, IF "type" \in DOMAIN data THEN data["type"] ELSE NULL)

\* exactly one row was added, to table, under a fresh identifier that the
\* response returns
AddedOneRow(table, r) ==
  /\ r \notin store[table]
  /\ \A o \in store[table] : o.id # r.id
  /\ store' = [store EXCEPT ![table] = @ \cup {r}]
  /\ response'.kind = "success"
  /\ response'.record_id = r.id

StoreUntouched == store' = store /\ next_id' = next_id

\* the pending empty-name create was executed with the name as supplied
CreatedWithNameAsSupplied ==
  LET table == pending_confirmation[1]["table"]
      data == pending_confirmation[1]["data"]
  IN \E r \in store'[table] :
       /\ AddedOneRow(table, r)
       /\ BlankRow(r)
       /\ r.name = IF "name" \in DOMAIN data THEN data["name"] ELSE NULL

\* C7 as stated: acceptance of a pending empty-name create adds exactly one
\* record to the pending table with the name as supplied, returns its new
\* identifier, and leaves the agent Idle.
C7_AcceptCreatesBlankRecord ==
  [][ (Stepped /\ AwaitingEmptyNameConfirm /\ SaysAccept(user_input'))
      => (CreatedWithNameAsSupplied /\ Idle') ]_vars

\* C7 as amended: acceptance leaves the agent Idle; when the store takes the
\* pending field-map exactly one record is added with the name as supplied and
\* its identifier is returned, otherwise nothing is written and the reply
\* reports the failure.
C7_AcceptCreatesBlankRecordIfStoreTakes ==
  [][ (Stepped /\ AwaitingEmptyNameConfirm /\ SaysAccept(user_input'))
      => /\ Idle'
         /\ IF StoreTakes(pending_confirmation[1]["table"],
                          pending_confirmation[1]["data"])
            THEN CreatedWithNameAsSupplied
            ELSE StoreUntouched /\ response'.kind = "error" ]_vars

\* an accepted empty-name create has written a row with a blank name and
\* returned its identifier
C7_Witness ==
  /\ Idle
  /\ SaysAccept(user_input)
  /\ response.kind = "success"
  /\ response.message[1] = "created_empty_name"
  /\ \E r \in store[response.message[2]] :
       r.id = response.record_id /\ BlankRow(r)

\* the pending field correction names a target record
PendingHasTarget == TruthyInt(pending_field_confirmation[1], "pending_record_id")

\* the original field-map with the offending field set to the suggestion
CorrectedMap ==
  LET p == pending_field_confirmation[1]
  IN [k \in DOMAIN p["data"] \cup {p["field"]} |->
        IF k = p["field"] THEN p["suggested_value"] ELSE p["data"][k]]

\* nothing stands in the way of the re-invoked operation: every enumerated
\* value of the corrected map is legal, and the target exists (update) or the
\* name is not blank (create)
CorrectedMapGoesThrough ==
  LET p == pending_field_confirmation[1]
  IN /\ StoreTakes(p["table"], CorrectedMap)
     /\ IF PendingHasTarget
        THEN \E o \in store[p["table"]] : o.id = p["pending_record_id"]
        ELSE "name" \in DOMAIN CorrectedMap /\ strip(CorrectedMap["name"]) # <<>>

\* update was re-invoked on the target and, on success, the target's field
\* holds the suggested value
ReinvokedUpdate ==
  LET p == pending_field_confirmation[1]
  IN /\ next_id' = next_id
     /\ \A t \in MODEL_MAP : {r.id : r \in store'[t]} = {r.id : r \in store[t]}
     /\ IF response'.kind = "success"
        THEN /\ response'.message = <<"updated", p["table"]>>
             /\ \E r \in store'[p["table"]] :
                  /\ r.id = p["pending_record_id"]
                  /\ r[p["field"]] = p["suggested_value"]
        ELSE StoreUntouched

\* create was re-invoked and, on success, the one new record's field holds the
\* suggested value
ReinvokedCreate ==
  LET p == pending_field_confirmation[1]
  IN IF response'.kind = "success"
     THEN /\ response'.message = <<"created", p["table"]>>
          /\ \E r \in store'[p["table"]] :
               /\ AddedOneRow(p["table"], r)
               /\ r[p["field"]] = p["suggested_value"]
     ELSE StoreUntouched

\* C8: acceptance of a pending field correction re-invokes update (target
\* present) or create (no target) with the offending field overwritten by the
\* suggested value: the operation succeeds whenever the corrected map goes
\* through, on success the stored field holds the suggested value, and the
\* agent is Idle afterwards.
C8_AcceptAppliesSuggestedValue ==
  [][ (Stepped /\ AwaitingFieldCorrectionConfirm /\ SaysAccept(user_input'))
      => /\ Idle'
         /\ IF PendingHasTarget THEN ReinvokedUpdate ELSE ReinvokedCreate
         /\ CorrectedMapGoesThrough => response'.kind = "success" ]_vars

\* an accepted correction of clients.status has replaced the status of
\* record 1 by the suggested label
C8_Witness ==
  /\ Idle
  /\ SaysAccept(user_input)
  /\ response.kind = "success"
  /\ response.message = <<"updated", "clients">>
  /\ \E r \in store["clients"] : r.id = 1 /\ r.status = Active

\* C9: a decline reply in either Awaiting state discards the pending
\* operation, writes nothing to the store, returns the cancellation notice of
\* that state, and leaves the agent Idle.
C9_DeclineDiscards ==
  [][ (Stepped /\ ~Idle /\ SaysDecline(user_input'))
      => /\ Idle'
         /\ StoreUntouched
         /\ tool_results' = <<>>
         /\ response'.kind = IF AwaitingFieldCorrectionConfirm
                             THEN "cancelled_field" ELSE "cancelled_empty" ]_vars

\* a pending field correction was declined with "No"
C9_Witness ==
  /\ Idle
  /\ user_input = <<"N", "o">>
  /\ response.kind = "cancelled_field"
  /\ resolved

\* C10: whenever the dispatcher results of the last call (a turn whose graph
\* did not raise) include one that carries requires_confirmation or
\* requires_field_confirmation, the agent is in an Awaiting state and the
\* reply is the yes/no question.
C10_FlaggedResultAsksQuestion ==
  (FlaggedIn(tool_results) # {} /\ response.kind # "exception")
  => (~Idle /\ response.kind \in {"ask_field", "ask_empty"})

(* ------------------- claims about the dispatcher ------------------------ *)
\* the step is one direct call of a dispatcher function
Called == calls' = calls + 1 /\ Len(invocations') = 1 /\ turns' = turns

\* the field-map has no name, or a name that is empty after trimming
NameMissingOrBlank(data) ==
  "name" \notin DOMAIN data \/ strip(data["name"]) = <<>>

\* number of records of a table
Count(rows, table) == Cardinality(rows[table])

\* C11: create on a known table with a missing, empty or whitespace-only name
\* returns requires_confirmation with pending_table equal to the table (and
\* the field-map as given), creates no record and leaves the record count of
\* the table unchanged.
C11_BlankNameCreateAsks ==
  [][ (/\ Called
       /\ invocations'[1].tool = "create_record"
       /\ invocations'[1].table \in MODEL_MAP
       /\ NameMissingOrBlank(invocations'[1].data))
      => /\ Truthy(tool_results'[1], "requires_confirmation")
         /\ ~Truthy(tool_results'[1], "success")
         /\ tool_results'[1]["pending_table"] = invocations'[1].table
         /\ tool_results'[1]["pending_data"] = invocations'[1].data
         /\ store' = store
         /\ Count(store', invocations'[1].table) = Count(store, invocations'[1].table)
         /\ next_id' = next_id ]_vars

\* create("projects", {"name": " "}) has asked for confirmation and projects
\* is still empty
C11_Witness ==
  /\ Len(invocations) = 1
  /\ invocations[1].tool = "create_record"
  /\ invocations[1].table = "projects"
  /\ invocations[1].data = [name |-> <<" ">>]
  /\ Truthy(tool_results[1], "requires_confirmation")
  /\ tool_results[1]["pending_table"] = "projects"
  /\ store["projects"] = {}

\* field is enumerated for table and value equals none of its legal values,
\* whatever the casing
FailsValidation(table, field, value) ==
  /\ table \in DOMAIN VALID_STATUS
  /\ field \in DOMAIN VALID_STATUS[table]
  /\ \A i \in 1..Len(VALID_STATUS[table][field]) :
       lower(value) # lower(VALID_STATUS[table][field][i])

\* the fields of a field-map that fail validation
FailingFields(table, data) ==
  {f \in DOMAIN data : FailsValidation(table, f, data[f])}

\* a create (with a name) or an update (of an existing record) on a known
\* table whose field-map has a field that fails validation
InvalidFieldRequest(c) ==
  /\ c.tool \in {"create_record", "update_record"}
  /\ c.table \in MODEL_MAP
  /\ FailingFields(c.table, c.data) # {}
  /\ c.tool = "create_record" => ~NameMissingOrBlank(c.data)
  /\ c.tool = "update_record" => \E r \in store[c.table] : r.id = c.record_id

\* C12: from Idle, a turn whose one tool call is a create or an update with an
\* enumerated field failing validation ends in AwaitingFieldCorrectionConfirm,
\* carrying table, field, user value, a suggested legal value, the original
\* field-map and (for an update) the record identifier, with the store
\* unchanged.
C12_InvalidFieldAsks ==
  [][ (/\ Stepped /\ Idle
       /\ response'.kind # "exception"
       /\ Len(invocations') = 1
       /\ InvalidFieldRequest(invocations'[1]))
      => /\ AwaitingFieldCorrectionConfirm'
         /\ pending_field_confirmation'[1]["table"] = invocations'[1].table
         /\ pending_field_confirmation'[1]["data"] = invocations'[1].data
         /\ pending_field_confirmation'[1]["field"]
              \in FailingFields(invocations'[1].table, invocations'[1].data)
         /\ pending_field_confirmation'[1]["user_value"]
              = invocations'[1].data[pending_field_confirmation'[1]["field"]]
         /\ ~FailsValidation(invocations'[1].table,
                             pending_field_confirmation'[1]["field"],
                             pending_field_confirmation'[1]["suggested_value"])
         /\ invocations'[1].tool = "update_record"
              => pending_field_confirmation'[1]["pending_record_id"]
                   = invocations'[1].record_id
         /\ store' = store ]_vars

\* the enumerated fields of a table among the columns the model keeps
EnumeratedFields(table) ==
  IF table \in DOMAIN VALID_STATUS
  THEN DOMAIN VALID_STATUS[table] \cap COLUMNS ELSE {}

\* the canonical strings of an enumerated field
Canonical(table, field) ==
  {VALID_STATUS[table][field][i] : i \in 1..Len(VALID_STATUS[table][field])}

\* every stored value of an enumerated field is absent or a canonical string
StoredCanonical ==
  \A table \in MODEL_MAP : \A r \in store[table] :
    \A f \in EnumeratedFields(table) :
      r[f] = NULL \/ r[f] \in Canonical(table, f)

\* a create (with a name) or an update (of an existing record) on a known
\* table whose field-map has only columns of the table and whose enumerated
\* values are all legal up to casing
LegalUpToCasing(c) ==
  /\ c.tool \in {"create_record", "update_record"}
  /\ c.table \in MODEL_MAP
  /\ Accepts(c.table, c.data)
  /\ FailingFields(c.table, c.data) = {}
  /\ c.tool = "create_record" => ~NameMissingOrBlank(c.data)
  /\ c.tool = "update_record" => \E r \in store[c.table] : r.id = c.record_id

\* the record a create or update is about
TargetId(c) ==
  IF c.tool = "update_record" THEN c.record_id ELSE next_id[c.table]

\* C13: every stored enumerated value is a canonical string, and a create or
\* update whose enumerated values are legal up to casing stores each of them
\* in its canonical casing.
C13_StoredValuesCanonical ==
  /\ []StoredCanonical
  /\ [][ (Called /\ LegalUpToCasing(invocations'[1]))
         => \E r \in store'[invocations'[1].table] :
              /\ r.id = TargetId(invocations'[1])
              /\ \A f \in DOMAIN invocations'[1].data
                          \cap EnumeratedFields(invocations'[1].table) :
                   /\ r[f] \in Canonical(invocations'[1].table, f)
                   /\ lower(r[f]) = lower(invocations'[1].data[f]) ]_vars

\* the first field of a field-map, in iteration order, that fails validation
FirstFailing(table, data) ==
  FieldOrder[CHOOSE i \in 1..Len(FieldOrder) :
               /\ FieldOrder[i] \in FailingFields(table, data)
               /\ \A j \in 1..(i - 1) :
                    FieldOrder[j] \notin FailingFields(table, data)]

\* C14: an update of an existing record whose field-map has several invalid
\* enumerated fields returns one requires_field_confirmation result that
\* names the first failing field in iteration order and carries the record
\* identifier.
C14_FirstFailingFieldNamed ==
  [][ (/\ Called
       /\ invocations'[1].tool = "update_record"
       /\ invocations'[1].table \in MODEL_MAP
       /\ \E r \in store[invocations'[1].table] : r.id = invocations'[1].record_id
       /\ Cardinality(FailingFields(invocations'[1].table,
                                    invocations'[1].data)) >= 2)
      => /\ Truthy(tool_results'[1], "requires_field_confirmation")
         /\ ~Truthy(tool_results'[1], "requires_confirmation")
         /\ tool_results'[1]["field"]
              = FirstFailing(invocations'[1].table, invocations'[1].data)
         /\ tool_results'[1]["pending_record_id"] = invocations'[1].record_id
         /\ tool_results'[1]["pending_data"] = invocations'[1].data ]_vars

\* C15: in update, validation precedes the store write: when a field of the
\* field-map fails validation, the store is left as it was, so no field of
\* the target record changes.
C15_NoWriteWhenFieldFails ==
  [][ (/\ Called
       /\ invocations'[1].tool = "update_record"
       /\ invocations'[1].table \in MODEL_MAP
       /\ FailingFields(invocations'[1].table, invocations'[1].data) # {})
      => /\ store' = store
         /\ ~Truthy(tool_results'[1], "success") ]_vars

\* an update of client 1 with a new name and an invalid status has been
\* called, and client 1 still has its old name and status
C15_Witness ==
  /\ Len(invocations) = 1
  /\ invocations[1].tool = "update_record"
  /\ invocations[1].table = "clients"
  /\ invocations[1].record_id = 1
  /\ invocations[1].data = [name |-> Bob, status |-> Activ]
  /\ ~Truthy(tool_results[1], "success")
  /\ \E r \in store["clients"] :
       r.id = 1 /\ r.name = Acme /\ r.status = Archive

\* the six operations of the dispatcher
Operations ==
  {"create_record", "read_record", "update_record", "delete_record",
   "list_records", "search_records_by_name"}

\* C16: each of the six operations, called with a table name that is not a
\* known table, returns a failure that carries only an error message (no
\* confirmation flag, no pending payload) and leaves the store and the
\* pending state untouched.
C16_UnknownTableFails ==
  [][ (/\ Called
       /\ invocations'[1].tool \in Operations
       /\ invocations'[1].table \notin MODEL_MAP)
      => /\ tool_results'[1] = Failure("invalid_table")
         /\ DOMAIN tool_results'[1] = {"success", "error"}
         /\ ~Truthy(tool_results'[1], "requires_confirmation")
         /\ ~Truthy(tool_results'[1], "requires_field_confirmation")
         /\ store' = store /\ next_id' = next_id
         /\ pending_confirmation' = pending_confirmation
         /\ pending_field_confirmation' = pending_field_confirmation ]_vars

\* a create with a blank name has been called on an unknown table and has
\* failed for the table
C16_Witness ==
  /\ Len(invocations) = 1
  /\ invocations[1].tool = "create_record"
  /\ invocations[1].table = "widgets"
  /\ invocations[1].data = [name |-> <<" ">>]
  /\ tool_results[1] = Failure("invalid_table")
  /\ pending_confirmation = <<>> /\ pending_field_confirmation = <<>>

(* ------------------ claims about the field validator ------------------- *)
\* validate_field_value has been called and its outcome recorded
Validated ==
  /\ calls = 1
  /\ Len(invocations) = 1
  /\ invocations[1].tool = "validate_field_value"
  /\ Len(tool_results) = 1

\* the table has rules and they enumerate the field
Enumerated(table, field) ==
  table \in DOMAIN VALID_STATUS /\ field \in DOMAIN VALID_STATUS[table]

\* value is v with each character in lower or in upper case
IsCasingOf(value, v) ==
  /\ Len(value) = Len(v)
  /\ \A i \in 1..Len(v) : value[i] \in {LowerChar(v[i]), UpperChar(v[i])}

\* C17: for every legal value v of an enumerated field and every casing of
\* v, validate_field_value returns valid with the canonical string v.
C17_AnyCasingIsValidCanonical ==
  (Validated /\ Enumerated(invocations[1].table, invocations[1].field))
  => \A v \in Canonical(invocations[1].table, invocations[1].field) :
       IsCasingOf(invocations[1].value, v)
       => /\ ~tool_results[1].raised
          /\ tool_results[1].is_valid
          /\ tool_results[1].suggested_value = v

\* validate_field_value("projects", "priority", "p1") has returned valid
\* with "P1"
C17_Witness ==
  /\ Validated
  /\ invocations[1].table = "projects"
  /\ invocations[1].field = "priority"
  /\ invocations[1].value = <<"p", "1">>
  /\ tool_results[1].is_valid
  /\ tool_results[1].suggested_value = <<"P", "1">>

\* C18: for a table without rules, and for a field the table's rules do not
\* enumerate, validate_field_value returns valid with the value unchanged.
C18_NoRulesPassThrough ==
  (Validated /\ ~Enumerated(invocations[1].table, invocations[1].field))
  => /\ ~tool_results[1].raised
     /\ tool_results[1].is_valid
     /\ tool_results[1].suggested_value = invocations[1].value

\* a mixed-case value has been validated for a table without rules
C18_Witness ==
  /\ Validated
  /\ invocations[1].table = "users"
  /\ invocations[1].field = "status"
  /\ invocations[1].value = Activ
  /\ tool_results[1].is_valid
  /\ tool_results[1].suggested_value = Activ

\* the similarity the validator computes between a value and a legal value
Similarity(value, v) == Ratio(lower(value), lower(v))

\* the maximum similarity between a value and the legal values of a field
MaxSimilarity(table, field, value) ==
  CHOOSE m \in {Similarity(value, v) : v \in Canonical(table, field)} :
    \A v \in Canonical(table, field) : Similarity(value, v) <= m

\* C19: when no legal value matches exactly and the maximum similarity is
\* at least 60, validate_field_value returns invalid with a legal value that
\* attains the maximum as suggestion and the maximum as similarity.
C19_CloseValueSuggested ==
  (/\ Validated
   /\ FailsValidation(invocations[1].table, invocations[1].field,
                      invocations[1].value)
   /\ MaxSimilarity(invocations[1].table, invocations[1].field,
                    invocations[1].value) >= 60)
  => /\ ~tool_results[1].raised
     /\ ~tool_results[1].is_valid
     /\ tool_results[1].suggested_value
          \in Canonical(invocations[1].table, invocations[1].field)
     /\ Similarity(invocations[1].value, tool_results[1].suggested_value)
          = MaxSimilarity(invocations[1].table, invocations[1].field,
                          invocations[1].value)
     /\ tool_results[1]["similarity"]
          = MaxSimilarity(invocations[1].table, invocations[1].field,
                          invocations[1].value)

\* C20: when no legal value matches exactly and the maximum similarity is
\* below 60, validate_field_value returns invalid with the first legal value
\* in declared order as suggestion.
C20_FarValueGetsFirstLegal ==
  (/\ Validated
   /\ FailsValidation(invocations[1].table, invocations[1].field,
                      invocations[1].value)
   /\ MaxSimilarity(invocations[1].table, invocations[1].field,
                    invocations[1].value) < 60)
  => /\ ~tool_results[1].raised
     /\ ~tool_results[1].is_valid
     /\ tool_results[1].suggested_value
          = VALID_STATUS[invocations[1].table][invocations[1].field][1]

(* ----------------- claims about searching and listing ------------------ *)
\* search_records_by_name has been called and has returned a result
Searched ==
  /\ Len(invocations) = 1
  /\ invocations[1].tool = "search_records_by_name"
  /\ Len(tool_results) = 1

\* the number of records a request for limit records may return at most
AtMost(limit) ==
  IF limit <= 0 THEN 0 ELSE IF limit > 100 THEN 100 ELSE limit

\* C21: for every limit a caller passes (zero, negative and above 100
\* included) and every table content, search_records_by_name returns at
\* most min(limit, 100) records, and none when that number is not positive.
C21_SearchAtMostLimit ==
  Searched
  => /\ Truthy(tool_results[1], "success")
     /\ Len(tool_results[1]["records"]) <= AtMost(invocations[1].limit)
     /\ tool_results[1]["count"] = Len(tool_results[1]["records"])

\* thresholds a search is compared with
Thresholds == {0, 60, 68, 100}

\* the number of records the search just made returns when its threshold
\* is replaced by min_similarity
CountAt(min_similarity) ==
  Len(search_records_by_name(db, invocations[1].table,
                             invocations[1].name_query, invocations[1].limit,
                             min_similarity).result["records"])

\* C22: for a fixed table content, query and limit, a search with a higher
\* min_similarity never returns more records.
C22_HigherThresholdNoMoreRecords ==
  Searched
  => \A higher \in Thresholds :
       higher > invocations[1].min_similarity
       => CountAt(higher) <= Len(tool_results[1]["records"])

\* a search at threshold 60 has returned two records of which only one
\* clears threshold 100
C22_Witness ==
  /\ Searched
  /\ invocations[1].min_similarity = 60
  /\ invocations[1].limit = 2
  /\ Len(tool_results[1]["records"]) = 2
  /\ CountAt(100) = 1

\* the candidates of the search just made: the rows of the table that have
\* a name
Candidates == {r \in store[invocations[1].table] : HasName(r)}

\* the candidates whose score clears the threshold of the search just made
Clearing ==
  {r \in Candidates :
     PartialRatio(lower(invocations[1].name_query), lower(r.name))
       >= invocations[1].min_similarity}

\* C23: search_records_by_name returns suggestions exactly when no candidate
\* clears the threshold and there is some candidate, and then at most 5;
\* with no candidate it returns no record and no suggestion.
C23_SuggestionsOnlyWithoutMatch ==
  Searched
  => /\ Truthy(tool_results[1], "success")
     /\ tool_results[1]["suggestions"] # <<>>
          <=> (Clearing = {} /\ Candidates # {})
     /\ Len(tool_results[1]["suggestions"]) <= 5
     /\ Candidates = {}
          => tool_results[1]["records"] = <<>>

\* the score of a returned record against the query of the search just made
Score(r) == PartialRatio(lower(invocations[1].name_query), lower(r.name))

\* C24: the records search_records_by_name returns all score at or above
\* min_similarity and come by descending score, records of equal score in
\* store iteration order (the order of their identifiers).
C24_ResultsClearAndOrdered ==
  Searched
  => /\ \A i \in 1..Len(tool_results[1]["records"]) :
          /\ HasName(tool_results[1]["records"][i])
          /\ Score(tool_results[1]["records"][i]) >= invocations[1].min_similarity
     /\ \A i, j \in 1..Len(tool_results[1]["records"]) :
          i < j
          => \/ Score(tool_results[1]["records"][i])
                  > Score(tool_results[1]["records"][j])
             \/ /\ Score(tool_results[1]["records"][i])
                     = Score(tool_results[1]["records"][j])
                /\ tool_results[1]["records"][i].id
                     < tool_results[1]["records"][j].id

\* a search for "Bob" over Rob, Bob, Bob (in store order) has returned the
\* two Bobs in store order and then Rob
C24_Witness ==
  /\ Searched
  /\ invocations[1].name_query = Bob
  /\ invocations[1].min_similarity = 60
  /\ Len(tool_results[1]["records"]) = 3
  /\ tool_results[1]["records"][1].id = 2
  /\ tool_results[1]["records"][2].id = 3
  /\ tool_results[1]["records"][3].id = 1
  /\ tool_results[1]["records"][3].name = Rob

\* list_records has been called and has returned a result
Listing ==
  /\ Len(invocations) = 1
  /\ invocations[1].tool = "list_records"
  /\ Len(tool_results) = 1

\* the records of the result of the listing just made (none on a failure)
ListedRecords ==
  IF Truthy(tool_results[1], "success") THEN tool_results[1]["records"] ELSE <<>>

\* C28: list_records returns at most min(limit, 100) records, and every
\* record it returns has, for every key of the filters, that key with the
\* value the filter gives.
C28_ListLimitedAndFiltered ==
  Listing
  => /\ Len(ListedRecords) <= AtMost(invocations[1].limit)
     /\ \A i \in 1..Len(ListedRecords) :
          \A k \in DOMAIN invocations[1].filters :
            /\ k \in DOMAIN ListedRecords[i]
            /\ ListedRecords[i][k] = invocations[1].filters[k]

(* ------------------- claims about history truncation ------------------- *)
\* the step is a call of _truncate_history
Truncating == Called /\ invocations'[1].tool = "_truncate_history"

\* every tool message of h comes after an AI message with tool_calls, with
\* nothing but tool messages in between
Paired(h) ==
  \A k \in 1..Len(h) :
    h[k].type = "tool"
    => \E i \in 1..(k - 1) :
         /\ h[i].type = "ai" /\ h[i].tool_calls
         /\ \A j \in (i + 1)..(k - 1) : h[j].type = "tool"

\* C25: when every tool message of the history comes with the AI message
\* that issued it, the same holds of the history _truncate_history leaves.
C25_TruncationKeepsPairs ==
  [][ (Truncating /\ Paired(conversation_history))
      => Paired(conversation_history') ]_vars

\* a truncation has extended the window backward: the kept history is
\* longer than the system prompt plus MAX_KEEP and starts with an AI message
\* with tool_calls followed by its tool message
C25_Witness ==
  /\ Len(invocations) = 1
  /\ invocations[1].tool = "_truncate_history"
  /\ Len(conversation_history) > 1 + MAX_KEEP
  /\ conversation_history[2].type = "ai" /\ conversation_history[2].tool_calls
  /\ conversation_history[3].type = "tool"
  /\ Paired(conversation_history)

\* t is the last Len(t) messages of h
IsSuffix(t, h) ==
  Len(t) <= Len(h) /\ t = SubSeq(h, Len(h) - Len(t) + 1, Len(h))

\* C26: on a history of more than 17 messages _truncate_history leaves the
\* system prompt followed by a suffix of the earlier messages that holds at
\* least the 16 most recent ones.
C26_WindowNeverShortened ==
  [][ (Truncating /\ Len(conversation_history) > 17)
      => /\ Head(conversation_history') = Head(conversation_history)
         /\ IsSuffix(Tail(conversation_history'), Tail(conversation_history))
         /\ Len(Tail(conversation_history')) >= 16 ]_vars

\* ---------------------------------------------------------------------
\* The webhook: receive_webhook starts one task per message and returns;
\* each task awaits the typing-indicator request, then runs the agent's
\* process_message without yielding, then awaits the reply request.

MaxInbox == 2

\* receive_webhook: a message with a sender, a text and an id gets a task
Receive(from, u) ==
  LET \* a task started by asyncio.create_task, suspended on the typing indicator
      Task(of_from, of_u) == [from |-> of_from, u |-> of_u, at |-> "typing", nth |-> 0]
  IN
  /\ Len(inbox) < MaxInbox
  /\ u.text # <<>>
  /\ inbox' = Append(inbox, Task(from, u))
  /\ UNCHANGED <<store, next_id, conversation_history, pending_confirmation,
                 pending_field_confirmation, user_input, response,
                 tool_results, pending_from, resolved, turns, calls,
                 invocations, thoughts_log, writers,
                 reminders>>

\* database_agent.process_message(message_text), one call of the agent
process_message(from, u) ==
  \/ EmptyInput(from, u)
  \/ ResetCommand(from, u)
  \/ AcceptEmptyName(from, u)
  \/ DeclineEmptyName(from, u)
  \/ RepromptEmptyName(from, u)
  \/ u \in PlainRequests /\ NewRequest(from, u)
  \/ u \in PlainRequests /\ NewRequestRaises(from, u)

\* process_whatsapp_message resumes once its typing-indicator request has
\* completed, whichever task that is, and runs the agent on its message
Handle(i) ==
  /\ inbox[i].at = "typing"
  /\ process_message(inbox[i].from, inbox[i].u)
  /\ inbox' = [inbox EXCEPT ![i].at = "replying", ![i].nth = turns + 1]
  /\ UNCHANGED <<thoughts_log, writers, reminders>>

\* the reply request of a task completes and the task ends
Replied(i) ==
  /\ inbox[i].at = "replying"
  /\ inbox' = [inbox EXCEPT ![i].at = "done"]
  /\ UNCHANGED <<store, next_id, conversation_history, pending_confirmation,
                 pending_field_confirmation, user_input, response,
                 tool_results, pending_from, resolved, turns, calls,
                 invocations, thoughts_log, writers,
                 reminders>>

WebhookNext ==
  \/ \E from \in Senders, u \in Replies \cup PlainRequests : Receive(from, u)
  \/ \E i \in 1..MaxInbox : i <= Len(inbox) /\ Handle(i)
  \/ \E i \in 1..MaxInbox : i <= Len(inbox) /\ Replied(i)

WebhookSpec == Init /\ [][WebhookNext]_vars

\* the agent has been run on message i of the inbox
Handled(i) == inbox[i].nth > 0

\* C27: of two messages of one conversation that the agent has been run on,
\* the one that arrived first was run first (the agent's runs follow the
\* arrival order within a conversation)
C27_HandledInArrivalOrder ==
  \A i, j \in 1..Len(inbox) :
    (i < j /\ inbox[i].from = inbox[j].from /\ Handled(i) /\ Handled(j))
      => inbox[i].nth < inbox[j].nth

\* ---------------------------------------------------------------------
\* log_thought: the tool reads whether logs/thoughts.csv exists, opens it
\* for appending (which creates it), and on leaving the with block the
\* buffered rows reach the file in one append.  The tools node runs the
\* tool calls of one AI message on a thread pool, so calls can overlap.

MaxThoughts == 3

\* writer.writerow(['timestamp', 'thought', 'category', 'tags'])
HEADER == <<"timestamp", "thought", "category", "tags">>

Thoughts == {"idea", "plan"}

\* writer.writerow([timestamp, thought, category, tags_str]), category and
\* tags at their defaults
Row(thought) ==
  LET \* datetime.now().strftime('%Y-%m-%d %H:%M:%S'); calls within one second
      \* share the timestamp
      NOW == "2025-01-01 00:00:00"
  IN
                <<NOW, thought, "general", "">>

\* what log_thought leaves alone
Unlogged ==
  <<store, next_id, conversation_history, pending_confirmation,
    pending_field_confirmation, user_input, response, tool_results,
    pending_from, resolved, turns, calls, invocations, inbox, reminders>>

\* log_thought up to file_exists = os.path.exists(csv_file)
CheckExists(thought) ==
  /\ Len(writers) < MaxThoughts
  /\ writers' = Append(writers, [thought |-> thought, at |-> "checked",
                                 file_exists |-> thoughts_log.exists])
  /\ UNCHANGED thoughts_log
  /\ UNCHANGED Unlogged

\* open(csv_file, 'a', ...): the file exists from here on
OpenAppend(i) ==
  /\ writers[i].at = "checked"
  /\ writers' = [writers EXCEPT ![i].at = "opened"]
  /\ thoughts_log' = [thoughts_log EXCEPT !.exists = TRUE]
  /\ UNCHANGED Unlogged

\* the body of the with block and its exit: the header if the file was
\* missing at the check, then the row
WriteRows(i) ==
  /\ writers[i].at = "opened"
  /\ writers' = [writers EXCEPT ![i].at = "done"]
  /\ thoughts_log' =
       [thoughts_log EXCEPT !.rows =
          @ \o (IF ~writers[i].file_exists THEN <<HEADER>> ELSE <<>>)
            \o <<Row(writers[i].thought)>>]
  /\ UNCHANGED Unlogged

LogNext ==
  \/ \E thought \in Thoughts : CheckExists(thought)
  \/ \E i \in 1..MaxThoughts : i <= Len(writers) /\ OpenAppend(i)
  \/ \E i \in 1..MaxThoughts : i <= Len(writers) /\ WriteRows(i)

LogSpec == Init /\ [][LogNext]_vars

\* every log_thought call made so far has returned
AllLogged ==
  /\ writers # <<>>
  /\ \A i \in 1..Len(writers) : writers[i].at = "done"

\* the number of entries of seq equal to x
Occurrences(seq, x) == Cardinality({k \in 1..Len(seq) : seq[k] = x})

\* C29: once every log_thought call has returned, the log starts with the
\* header, holds the header exactly once, and holds exactly one data row per
\* call
C29_OneHeaderThenOneRowPerCall ==
  AllLogged =>
    /\ thoughts_log.rows[1] = HEADER
    /\ Occurrences(thoughts_log.rows, HEADER) = 1
    /\ Len(thoughts_log.rows) = 1 + Len(writers)
    /\ \A thought \in Thoughts :
         Occurrences(thoughts_log.rows, Row(thought))
           = Cardinality({i \in 1..Len(writers) : writers[i].thought = thought})

\* the step is a call of process_message
Processing == turns' = turns + 1

\* the text just processed is "/reset", "/clear" or "reset" in some casing
ResetSent == lower(user_input') \in RESET_COMMANDS

\* C30: whatever the agent state, a call of process_message with "/reset",
\* "/clear" or "reset" in any casing leaves the history holding the system
\* prompt alone, clears both pending slots and leaves the store as it was
C30_ResetFromAnyState ==
  [][ (Processing /\ ResetSent) =>
        /\ conversation_history' = <<SystemMessage>>
        /\ pending_confirmation' = <<>>
        /\ pending_field_confirmation' = <<>>
        /\ store' = store
        /\ next_id' = next_id ]_vars

\* "RESET" has just been processed after a tool was called and with a
\* client in the store: the history is the system prompt alone and nothing
\* is pending
C30_Witness ==
  /\ user_input = <<"R", "E", "S", "E", "T">>
  /\ response.kind = "reset"
  /\ calls > 0
  /\ store["clients"] # {}
  /\ conversation_history = <<SystemMessage>>
  /\ Idle

\* the vocabularies as the specification lists them
Acceptance ==
  { <<"y", "e", "s">>, <<"y">>, <<"p", "r", "o", "c", "e", "e", "d">>,
    <<"o", "k">>, <<"c", "o", "n", "f", "i", "r", "m">> }

Refusal ==
  { <<"n", "o">>, <<"n">>, <<"c", "a", "n", "c", "e", "l">>,
    <<"a", "b", "o", "r", "t">> }

\* a question is pending, of either kind
Awaiting == AwaitingFieldCorrectionConfirm \/ AwaitingEmptyNameConfirm

\* the step carried out the pending operation
TakenAsAcceptance ==
  /\ Len(invocations') = 1
  /\ invocations'[1].tool \in
       { "confirm_field_correction", "confirm_create_with_corrected_field",
         "confirm_create_with_empty_name" }

\* the step cancelled the pending operation
TakenAsDecline == response'.kind \in {"cancelled_field", "cancelled_empty"}

\* the step asked the question again
TakenAsNeither == response'.kind \in {"reprompt_field", "reprompt_empty"}

\* C31: in either Awaiting state a reply is taken as acceptance exactly when
\* its lowercased, trimmed text is in the acceptance vocabulary, as decline
\* exactly when it is in the decline vocabulary, and every other reply that
\* is neither blank nor a reset command gets the question again; the two
\* vocabularies are disjoint
C31_RepliesClassifiedByVocabulary ==
  [][ (Awaiting /\ Processing) =>
        /\ Acceptance \cap Refusal = {}
        /\ TakenAsAcceptance <=> strip(lower(user_input')) \in Acceptance
        /\ TakenAsDecline <=> strip(lower(user_input')) \in Refusal
        /\ (/\ strip(lower(user_input')) \notin Acceptance \cup Refusal
            /\ strip(user_input') # <<>>
            /\ lower(user_input') \notin RESET_COMMANDS) => TakenAsNeither ]_vars

\* " OK " has just been taken as the acceptance of a field correction
C31_Witness ==
  /\ user_input = <<" ", "O", "K", " ">>
  /\ Len(invocations) = 1
  /\ invocations[1].tool = "confirm_field_correction"
  /\ pending_field_confirmation = <<>>

\* the call is an update on a known table with an identifier that no record
\* of the table carries
UpdateOfMissing ==
  /\ Called
  /\ invocations'[1].tool = "update_record"
  /\ invocations'[1].table \in MODEL_MAP
  /\ \A r \in store[invocations'[1].table] : r.id # invocations'[1].record_id

\* C32: update on a known table with an identifier that matches no record
\* fails as not found, does not ask for a field confirmation, sets no
\* pending operation and writes nothing, whatever the field-map holds
C32_MissingRecordIsFatal ==
  [][ UpdateOfMissing =>
        /\ tool_results'[1] = Failure("not_found")
        /\ ~Truthy(tool_results'[1], "success")
        /\ ~Truthy(tool_results'[1], "requires_field_confirmation")
        /\ pending_confirmation' = <<>>
        /\ pending_field_confirmation' = <<>>
        /\ store' = store ]_vars

\* update("clients", 9, {"type": "Familly", "status": "Activ"}) has failed as
\* not found while clients holds other records
C32_Witness ==
  /\ Len(invocations) = 1
  /\ invocations[1].tool = "update_record"
  /\ invocations[1].table = "clients"
  /\ invocations[1].record_id = 9
  /\ invocations[1].data = [type |-> Familly, status |-> Activ]
  /\ tool_results[1] = Failure("not_found")
  /\ store["clients"] # {}

\* validating value again for the same table and field reports it valid and
\* returns the same string
ValidAsIs(table, field, value) ==
  LET again == validate_field_value(table, field, value)
  IN /\ ~again.raised
     /\ again.is_valid
     /\ again.suggested_value = value

Entries == {"cli", "web", "whatsapp", "supervisor"}

\* the entry point passes what the user wrote on to the agent
Forwards(entry, u) ==
  LET QUIT_WORDS ==
        { <<"q", "u", "i", "t">>, <<"e", "x", "i", "t">>, <<"b", "y", "e">> }
  IN
  CASE entry = "cli" ->
         strip(u.text) # <<>> /\ lower(strip(u.text)) \notin QUIT_WORDS
    [] entry = "web" -> TRUE
    [] entry = "whatsapp" -> u.text # <<>>
    [] entry = "supervisor" -> TRUE

\* the argument of process_message
Forwarded(entry, u) ==
  LET \* DatabaseAgentWrapper.invoke: full_message for a messages list that holds
      \* the user's message alone
      full_message(user_message) ==
        LET \* "\n\nCURRENT REQUEST: "
            REQUEST_HEAD ==
              <<"\n", "\n", "C", "U", "R", "R", "E", "N", "T", " ", "R", "E", "Q", "U",
                "E", "S", "T", ":", " ">>
        IN
        LET \* "CONVERSATION CONTEXT:\n" and "User: "
            CONTEXT_HEAD ==
              <<"C", "O", "N", "V", "E", "R", "S", "A", "T", "I", "O", "N", " ", "C",
                "O", "N", "T", "E", "X", "T", ":", "\n", "U", "s", "e", "r", ":", " ">>
        IN
        CONTEXT_HEAD \o user_message \o REQUEST_HEAD \o user_message
  IN
  CASE entry = "cli" -> [u EXCEPT !.text = strip(u.text)]
    [] entry = "web" -> u
    [] entry = "whatsapp" -> u
    [] entry = "supervisor" -> Text(full_message(u.text))

Yes == <<"y", "e", "s">>

No == <<"n", "o">>

\* one message through an entry point: process_message on the forwarded text
Deliver(entry, from, u) ==
  /\ Forwards(entry, u)
  /\ \E m \in {Forwarded(entry, u)} :
       \/ EmptyInput(from, m)
       \/ ResetCommand(from, m)
       \/ AcceptFieldCorrection(from, m)
       \/ DeclineFieldCorrection(from, m)
       \/ RepromptFieldCorrection(from, m)
       \/ AcceptEmptyName(from, m)
       \/ DeclineEmptyName(from, m)
       \/ RepromptEmptyName(from, m)
       \/ u \in Requests /\ NewRequest(from, m)
       \/ u \in Requests /\ NewRequestRaises(from, m)
  /\ UNCHANGED Aside

EntryNext ==
  \E entry \in Entries, from \in {"A"}, u \in ({ Text(Yes), Text(No), Text(<<" ", "O", "K", " ">>), Text(<<"/", "r", "e", "s", "e", "t">>), Text(<<" ">>) } \cup PlainRequests \cup { JsonText(FieldQuestion("clients", 0, [name |-> Bob, status |-> Activ])) }) : Deliver(entry, from, u)

EntrySpec == Init /\ [][EntryNext]_vars

\* the text just processed is what the entry point makes of a written
\* "yes" or "no"
RepliedThrough(entry) ==
  \E word \in {Yes, No} : user_input' = Forwarded(entry, Text(word)).text

\* C34: a "yes" or "no" written while a confirmation is pending returns the
\* agent to Idle, whichever entry point hands it to process_message
C34_ReplyReturnsToIdle ==
  [][ \A entry \in Entries :
        (Awaiting /\ Processing /\ RepliedThrough(entry)) => Idle' ]_vars

\* the step is a new request from Idle that ended in the except branch
RequestRaised == Idle /\ Processing /\ response'.kind = "exception"

\* C35: when the graph invocation raises on a new request from Idle, the
\* history afterwards equals the history before the message arrived and no
\* pending operation is set
C35_FailedMessageRemoved ==
  [][ RequestRaised =>
        /\ conversation_history' = conversation_history
        /\ pending_confirmation' = <<>>
        /\ pending_field_confirmation' = <<>> ]_vars

\* a request has just failed after an earlier exchange: the history holds
\* that exchange and ends with the agent's answer
C35_Witness ==
  /\ response.kind = "exception"
  /\ turns > 1
  /\ Len(conversation_history) > 1
  /\ conversation_history[Len(conversation_history)].type = "ai"
  /\ Idle

\* ---------------------------------------------------------------------
\* parse_array_field.  A Python value is a record of its type and payload:
\* a str carries its characters, an int its decimal digits, a bool its
\* name, a list its elements.

PyNone == [kind |-> "none", v |-> <<>>]

PyInt(digits) == [kind |-> "int", v |-> digits]

PyBool(name) == [kind |-> "bool", v |-> <<name>>]

PyStr(chars) == [kind |-> "str", v |-> chars]

PyList(elements) == [kind |-> "list", elements |-> elements]

DIGITS == {"0", "1", "2", "3", "4", "5", "6", "7", "8", "9"}

\* str.split(sep) for a separator of one character
RECURSIVE split(_, _)
split(s, sep) ==
  IF \A i \in 1..Len(s) : s[i] # sep
  THEN <<s>>
  ELSE LET at == CHOOSE i \in 1..Len(s) :
                   s[i] = sep /\ \A j \in 1..(i - 1) : s[j] # sep
       IN <<SubSeq(s, 1, at - 1)>> \o split(SubSeq(s, at + 1, Len(s)), sep)

\* sep.join(parts)
RECURSIVE join(_, _)
join(parts, sep) ==
  IF parts = <<>> THEN <<>>
  ELSE IF Len(parts) = 1 THEN parts[1]
  ELSE parts[1] \o <<sep>> \o join(Tail(parts), sep)

\* json.loads, for texts that hold a scalar or an array of scalars
json_loads(s) ==
  LET \* json.JSONDecodeError
      JSONDecodeError == [raised |-> TRUE, value |-> PyNone]
  IN
  LET Decoded(value) == [raised |-> FALSE, value |-> value]
  IN
  LET \* json.loads of a text that holds no array: a number written in digits, a
      \* string without escapes, null, true or false; anything else does not decode
      JsonScalar(text) ==
        LET t == strip(text)
        IN IF t = <<"n", "u", "l", "l">> THEN Decoded(PyNone)
           ELSE IF t = <<"t", "r", "u", "e">> THEN Decoded(PyBool("True"))
           ELSE IF t = <<"f", "a", "l", "s", "e">> THEN Decoded(PyBool("False"))
           ELSE IF /\ t # <<>>
                   /\ \A i \in 1..Len(t) : t[i] \in DIGITS
                   /\ (Len(t) > 1 => t[1] # "0")
           THEN Decoded(PyInt(t))
           ELSE IF /\ Len(t) >= 2
                   /\ t[1] = "\"" /\ t[Len(t)] = "\""
                   /\ \A i \in 2..(Len(t) - 1) : t[i] \notin {"\"", "\\"}
           THEN Decoded(PyStr(SubSeq(t, 2, Len(t) - 1)))
           ELSE JSONDecodeError
  IN
  LET t == strip(s)
  IN IF Len(t) >= 2 /\ t[1] = "[" /\ t[Len(t)] = "]"
     THEN LET inner == SubSeq(t, 2, Len(t) - 1)
              parts == split(inner, ",")
          IN IF strip(inner) = <<>> THEN Decoded(PyList(<<>>))
             ELSE IF \E i \in 1..Len(parts) : JsonScalar(parts[i]).raised
             THEN JSONDecodeError
             ELSE Decoded(PyList([i \in 1..Len(parts) |->
                                    JsonScalar(parts[i]).value]))
     ELSE JsonScalar(t)

\* [item for item in items if item.strip()]
RECURSIVE NonBlank(_)
NonBlank(items) ==
  IF items = <<>> THEN <<>>
  ELSE IF strip(Head(items)) # <<>>
  THEN <<Head(items)>> \o NonBlank(Tail(items))
  ELSE NonBlank(Tail(items))

\* variant: a string that is not JSON is split without trimming
parse_array_field_untrimmed(value) ==
  LET \* variant: the items of a comma-separated string are kept as written
      CommaItemsAsWritten(chars) ==
        LET kept == NonBlank(split(chars, ","))
        IN [i \in 1..Len(kept) |-> PyStr(kept[i])]
  IN
  IF value.kind = "none" THEN PyNone
  ELSE IF value.kind = "list" THEN value
  ELSE IF value.kind = "str"
  THEN LET parsed == json_loads(value.v)
       IN IF ~parsed.raised
          THEN IF parsed.value.kind = "list" THEN parsed.value
               ELSE PyList(<<parsed.value>>)
          ELSE PyList(CommaItemsAsWritten(value.v))
  ELSE PyList(<<value>>)

\* utils.parse_array_field
parse_array_field(value) ==
  LET \* [item.strip() for item in value.split(',') if item.strip()]
      CommaItems(chars) ==
        LET kept == NonBlank(split(chars, ","))
        IN [i \in 1..Len(kept) |-> PyStr(strip(kept[i]))]
  IN
  IF value.kind = "none" THEN PyNone
  ELSE IF value.kind = "list" THEN value
  ELSE IF value.kind = "str"
  THEN LET parsed == json_loads(value.v)
       IN IF ~parsed.raised
          THEN IF parsed.value.kind = "list" THEN parsed.value
               ELSE PyList(<<parsed.value>>)
          ELSE PyList(CommaItems(value.v))
  ELSE PyList(<<value>>)

\* items of a comma-separated string or of a JSON array, per string
MaxItems == 3

ParseInit ==
  LET \* the values handed to parse_array_field
      ArrayValues ==
        LET Joined(S) ==
              { join(parts, ",") : parts \in UNION {[1..k -> S] : k \in 1..MaxItems} }
        IN
        LET \* texts of JSON scalars
            Scalars == { <<"1">>, <<"\"", "a", "\"">>, <<" ", "2">> }
        IN
        LET \* texts between the commas
            Items == { <<>>, <<"a">>, <<" ", "b", " ">>, <<"7">> }
        IN
        { PyStr(chars) : chars \in Joined(Items) }
          \cup { PyStr(<<"[">> \o chars \o <<"]">>) : chars \in Joined(Scalars) \cup {<<>>} }
          \cup { PyStr(<<"[", "1">>), PyStr(<<"n", "u", "l", "l">>),
                 PyStr(<<"\"", "a", "\"">>) }
          \cup { PyList(<<>>), PyList(<<PyInt(<<"1">>), PyInt(<<"2">>)>>),
                 PyList(<<PyStr(<<" ", "b", " ">>), PyStr(<<"a">>)>>) }
          \cup { PyInt(<<"5">>), PyBool("True"), PyNone }
  IN
  /\ store = [t \in MODEL_MAP |-> {}]
  /\ next_id = [t \in MODEL_MAP |-> 1]
  /\ conversation_history = <<SystemMessage>>
  /\ pending_confirmation = <<>>
  /\ pending_field_confirmation = <<>>
  /\ response = Reply("", "none", "", "", None, 0, <<>>)
  /\ tool_results = <<>>
  /\ pending_from = ""
  /\ user_input = <<>>
  /\ resolved = FALSE
  /\ turns = 0
  /\ calls = 0
  /\ \E value \in ArrayValues :
       invocations = <<Call("parse_array_field", "", 0, NoFields, "", value)>>
  /\ AsideInit

\* one call of parse_array_field
Parse ==
  /\ calls = 0
  /\ Len(invocations) = 1
  /\ invocations[1].tool = "parse_array_field"
  /\ calls' = 1
  /\ tool_results' = <<parse_array_field(invocations[1].value)>>
  /\ UNCHANGED <<store, next_id, conversation_history, pending_confirmation,
                 pending_field_confirmation, user_input, response,
                 pending_from, resolved, turns, invocations>>
  /\ UNCHANGED Aside

ParseSpec == ParseInit /\ [][Parse]_vars

\* parse_array_field has been called and has returned
Parsed ==
  /\ calls = 1
  /\ Len(invocations) = 1
  /\ invocations[1].tool = "parse_array_field"
  /\ Len(tool_results) = 1

\* the text decodes as a JSON array
IsJsonArray(chars) ==
  ~json_loads(chars).raised /\ json_loads(chars).value.kind = "list"

\* the text does not decode as JSON at all
IsNotJson(chars) == json_loads(chars).raised

\* the items of a comma-separated text, trimmed, the empty ones left out
RECURSIVE TrimmedItems(_)
TrimmedItems(parts) ==
  IF parts = <<>> THEN <<>>
  ELSE IF strip(Head(parts)) = <<>> THEN TrimmedItems(Tail(parts))
  ELSE <<PyStr(strip(Head(parts)))>> \o TrimmedItems(Tail(parts))

\* C38 as stated: for every input other than None parse_array_field returns
\* a list: a list as it is, a JSON-array string as its elements, every other
\* string as its trimmed non-empty comma-separated items, any other value as
\* a list of one element; and applying it to its result returns the result
C38_StringsAreArraysOrItems ==
  (Parsed /\ invocations[1].value # PyNone)
  => LET value == invocations[1].value
         result == tool_results[1]
     IN /\ result.kind = "list"
        /\ value.kind = "list" => result = value
        /\ (value.kind = "str" /\ IsJsonArray(value.v))
             => result = json_loads(value.v).value
        /\ (value.kind = "str" /\ ~IsJsonArray(value.v))
             => result.elements = TrimmedItems(split(value.v, ","))
        /\ value.kind \notin {"list", "str"} => result.elements = <<value>>
        /\ parse_array_field(result) = result

\* C38, amended: for every input other than None parse_array_field returns a
\* list: a list as it is, a JSON-array string as its elements, a string that
\* is not JSON as its trimmed non-empty comma-separated items, a string that
\* holds another JSON value as that one decoded value, any other value as a
\* list of that one value; and applying it to its result returns the result
C38_ParseArrayField ==
  (Parsed /\ invocations[1].value # PyNone)
  => LET value == invocations[1].value
         result == tool_results[1]
     IN /\ result.kind = "list"
        /\ value.kind = "list" => result = value
        /\ (value.kind = "str" /\ IsJsonArray(value.v))
             => result = json_loads(value.v).value
        /\ (value.kind = "str" /\ IsNotJson(value.v))
             => result.elements = TrimmedItems(split(value.v, ","))
        /\ (value.kind = "str" /\ ~IsJsonArray(value.v) /\ ~IsNotJson(value.v))
             => result.elements = <<json_loads(value.v).value>>
        /\ value.kind \notin {"list", "str"} => result.elements = <<value>>
        /\ parse_array_field(result) = result

\* " b ,,a" has been parsed into the two items "b" and "a"
C38_Witness ==
  /\ Parsed
  /\ invocations[1].value = PyStr(<<" ", "b", " ", ",", ",", "a">>)
  /\ tool_results[1] = PyList(<<PyStr(<<"b">>), PyStr(<<"a">>)>>)

(* ------------------------ add_reminder on its own ----------------------- *)
\* add_reminder calls made
MaxReminders == 1

\* s contains sub (Python's "sub in s")
Contains(s, sub) ==
  \E i \in 1..(Len(s) + 1) :
    /\ i + Len(sub) - 1 <= Len(s)
    /\ SubSeq(s, i, i + Len(sub) - 1) = sub

\* days of a month of the Gregorian calendar
DaysIn(year, month) ==
  IF month = 2
    THEN IF year % 4 = 0 /\ (year % 100 # 0 \/ year % 400 = 0) THEN 29 ELSE 28
    ELSE IF month \in {4, 6, 9, 11} THEN 30 ELSE 31

\* the field values datetime accepts; datetime.replace raises ValueError on
\* any other
InRange(dt) ==
  /\ dt.year \in 1..9999
  /\ dt.month \in 1..12
  /\ dt.day \in 1..DaysIn(dt.year, dt.month)
  /\ dt.hour \in 0..23
  /\ dt.minute \in 0..59
  /\ dt.second \in 0..59
  /\ dt.microsecond \in 0..999999

\* a < b on datetimes
Before(a, b) ==
  LET A == <<a.year, a.month, a.day, a.hour, a.minute, a.second,
             a.microsecond>>
      B == <<b.year, b.month, b.day, b.hour, b.minute, b.second,
             b.microsecond>>
  IN  \E i \in 1..7 : A[i] < B[i] /\ \A j \in 1..(i - 1) : A[j] = B[j]

\* dt.strftime('%Y-%m-%d %H:%M'): the seconds are not printed
strftime(dt) == <<dt.year, dt.month, dt.day, dt.hour, dt.minute>>

\* "21:30", "9:30pm" and "tomorrow"
HALF_PAST_NINE == <<"2", "1", ":", "3", "0">>

HALF_PAST_NINE_PM == <<"9", ":", "3", "0", "p", "m">>

TOMORROW == <<"t", "o", "m", "o", "r", "r", "o", "w">>

\* tools.add_reminder: what it returns and the rows it appends to
\* logs/reminders.csv; a datetime.replace that raises ends the call before
\* the file is opened
add_reminder(now, reminder_text, due_time, file_exists) ==
  LET \* the due date add_reminder computes from due_time, before it is printed:
      \* <<>> when no due time is given
      due_date(clock, wanted) ==
        IF wanted = <<>>
          THEN <<>>
          ELSE IF \/ Contains(wanted, HALF_PAST_NINE)
                  \/ Contains(lower(wanted), HALF_PAST_NINE_PM)
            THEN LET at == [clock EXCEPT !.hour = 21, !.minute = 30, !.second = 0,
                                       !.microsecond = 0]
                 IN  IF Before(at, clock) THEN <<[at EXCEPT !.day = @ + 1]>>
                                        ELSE <<at>>
            ELSE IF Contains(lower(wanted), TOMORROW)
              THEN LET at == [clock EXCEPT !.hour = 9, !.minute = 0, !.second = 0,
                                         !.microsecond = 0]
                   IN  <<[at EXCEPT !.day = @ + 1]>>
              ELSE <<[clock EXCEPT !.minute = @ + 60]>>
  IN
  LET \* writer.writerow(['timestamp', 'reminder_text', 'due_time', 'priority',
      \* 'category', 'status'])
      REMINDER_HEADER ==
        <<"timestamp", "reminder_text", "due_time", "priority", "category",
          "status">>
  IN
  LET due == due_date(now, due_time)
  IN  IF due # <<>> /\ ~InRange(due[1])
        THEN [success |-> FALSE, error |-> "ValueError", due |-> <<>>,
              rows |-> <<>>]
        ELSE LET due_date_str == IF due = <<>> THEN <<>> ELSE strftime(due[1])
             IN  [success |-> TRUE, error |-> "", due |-> due_date_str,
                  rows |->
                    (IF file_exists THEN <<>> ELSE <<REMINDER_HEADER>>)
                      \o <<<<now, reminder_text, due_date_str, "medium",
                             "general", "pending">>>>]

ReminderInit ==
  LET \* dates and times of day the clock may show when add_reminder is called
      Clocks ==
        { datetime(2025, month, day, hour, minute, second, 0) :
            month \in {1, 2, 12}, day \in {1, 28, 31}, hour \in {9, 21, 23},
            minute \in 0..59, second \in {0, 30} }
  IN
  /\ store = [t \in MODEL_MAP |-> {}]
  /\ next_id = [t \in MODEL_MAP |-> 1]
  /\ conversation_history = <<SystemMessage>>
  /\ pending_confirmation = <<>>
  /\ pending_field_confirmation = <<>>
  /\ response = Reply("", "none", "", "", None, 0, <<>>)
  /\ tool_results = <<>>
  /\ pending_from = ""
  /\ user_input = <<>>
  /\ resolved = FALSE
  /\ turns = 0
  /\ calls = 0
  /\ invocations = <<>>
  /\ inbox = <<>>
  /\ thoughts_log = [exists |-> FALSE, rows |-> <<>>]
  /\ writers = <<>>
  /\ \E now \in Clocks :
       /\ InRange(now)
       /\ reminders = [now |-> now, exists |-> FALSE, rows |-> <<>>,
                       returned |-> <<>>]

\* one call of add_reminder, priority and category at their defaults
AddReminder(reminder_text, due_time) ==
  /\ Len(reminders.returned) < MaxReminders
  /\ LET result == add_reminder(reminders.now, reminder_text, due_time,
                                reminders.exists)
     IN  reminders' =
           [reminders EXCEPT
              !.exists = @ \/ result.success,
              !.rows = @ \o result.rows,
              !.returned = Append(@, [due_time |-> due_time,
                                      success |-> result.success,
                                      due |-> result.due])]
  /\ UNCHANGED <<store, next_id, conversation_history, pending_confirmation,
                 pending_field_confirmation, user_input, response,
                 tool_results, pending_from, resolved, turns, calls,
                 invocations, inbox, thoughts_log, writers>>

ReminderNext == \E due_time \in ({ <<>>, HALF_PAST_NINE, <<"9", ":", "3", "0", "P", "M">>, <<"T", "o", "m", "o", "r", "r", "o", "w">>, <<"l", "a", "t", "e", "r">> }) : AddReminder("call", due_time)

ReminderSpec == ReminderInit /\ [][ReminderNext]_vars

(* ------------------------ claims about add_reminder --------------------- *)
\* the day after dt, at the same time of day
NextDay(dt) ==
  IF dt.day < DaysIn(dt.year, dt.month)
    THEN [dt EXCEPT !.day = @ + 1]
    ELSE IF dt.month < 12
      THEN [dt EXCEPT !.day = 1, !.month = @ + 1]
      ELSE [dt EXCEPT !.day = 1, !.month = 1, !.year = @ + 1]

\* one hour after dt
HourLater(dt) ==
  IF dt.hour < 23 THEN [dt EXCEPT !.hour = @ + 1]
                  ELSE NextDay([dt EXCEPT !.hour = 0])

MentionsHalfPastNine(due_time) ==
  \/ Contains(due_time, HALF_PAST_NINE)
  \/ Contains(lower(due_time), HALF_PAST_NINE_PM)

MentionsTomorrow(due_time) == Contains(lower(due_time), TOMORROW)

\* C37: a call of add_reminder with a due time succeeds whatever the clock
\* shows: a due time that mentions neither 21:30 / 9:30pm nor "tomorrow" is
\* recorded as one hour after the current time, "tomorrow" as 9:00 of the
\* next day, and 21:30 when that time of day has passed as 21:30 of the next
\* day
C37_ReminderDueTimes ==
  \A i \in 1..Len(reminders.returned) :
    LET r == reminders.returned[i]
        now == reminders.now
        at2130 == [now EXCEPT !.hour = 21, !.minute = 30, !.second = 0,
                              !.microsecond = 0]
        at9 == [now EXCEPT !.hour = 9, !.minute = 0, !.second = 0,
                           !.microsecond = 0]
    IN  /\ /\ r.due_time # <<>>
           /\ ~MentionsHalfPastNine(r.due_time)
           /\ ~MentionsTomorrow(r.due_time)
           => r.success /\ r.due = strftime(HourLater(now))
        /\ /\ MentionsTomorrow(r.due_time)
           /\ ~MentionsHalfPastNine(r.due_time)
           => r.success /\ r.due = strftime(NextDay(at9))
        /\ MentionsHalfPastNine(r.due_time) /\ Before(at2130, now)
           => r.success /\ r.due = strftime(NextDay(at2130))

(* ------------- what create_record hands to the model class -------------- *)
\* utils.parse_date_string
parse_date_string(date_str) ==
  LET \* a datetime object
      PyDatetime(dt) == [kind |-> "datetime", at |-> dt]
  IN
  LET \* int() of one decimal digit
      DigitValue(c) ==
        CHOOSE n \in 0..9 :
          <<"0", "1", "2", "3", "4", "5", "6", "7", "8", "9">>[n + 1] = c
  IN
  LET \* int() of a run of decimal digits
      RECURSIVE int(_)
      int(digits) ==
        IF digits = <<>> THEN 0
        ELSE int(SubSeq(digits, 1, Len(digits) - 1)) * 10
               + DigitValue(digits[Len(digits)])
  IN
  LET \* between lo and hi decimal digits and nothing else
      IsDigits(s, lo, hi) ==
        Len(s) \in lo..hi /\ \A i \in 1..Len(s) : s[i] \in DIGITS
  IN
  LET RECURSIVE Power10(_)
      Power10(n) == IF n = 0 THEN 1 ELSE 10 * Power10(n - 1)
  IN
  LET \* the fields '%Y-%m-%d' reads: <<>> when the text does not match
      DateFields(chars) ==
        LET parts == split(chars, "-")
        IN  IF /\ Len(parts) = 3
               /\ IsDigits(parts[1], 4, 4)
               /\ IsDigits(parts[2], 1, 2)
               /\ IsDigits(parts[3], 1, 2)
              THEN <<[year |-> int(parts[1]), month |-> int(parts[2]),
                      day |-> int(parts[3])]>>
              ELSE <<>>
  IN
  LET \* the datetime of a date and a time of day: <<>> when either did not match
      \* or a field is out of range (ValueError)
      Combined(date, time) ==
        IF date = <<>> \/ time = <<>>
          THEN <<>>
          ELSE LET dt == datetime(date[1].year, date[1].month, date[1].day,
                                  time[1].hour, time[1].minute, time[1].second,
                                  time[1].microsecond)
               IN  IF InRange(dt) THEN <<dt>> ELSE <<>>
  IN
  LET \* the fields '%H:%M:%S' or '%H:%M:%S.%f' reads: <<>> when the text does not
      \* match; %f reads one to six digits as a fraction of a second
      TimeFields(chars, fraction) ==
        LET parts == split(chars, ":")
            last == IF Len(parts) = 3 THEN split(parts[3], ".") ELSE <<>>
        IN  IF /\ Len(parts) = 3
               /\ IsDigits(parts[1], 1, 2)
               /\ IsDigits(parts[2], 1, 2)
               /\ Len(last) = (IF fraction THEN 2 ELSE 1)
               /\ IsDigits(last[1], 1, 2)
               /\ fraction => IsDigits(last[2], 1, 6)
              THEN <<[hour |-> int(parts[1]), minute |-> int(parts[2]),
                      second |-> int(last[1]),
                      microsecond |->
                        IF fraction
                          THEN int(last[2]) * Power10(6 - Len(last[2]))
                          ELSE 0]>>
              ELSE <<>>
  IN
  LET \* datetime.strptime(date_str, '%Y-%m-%d'): midnight of the day
      strptime_date(text) ==
        Combined(DateFields(text),
                 <<[hour |-> 0, minute |-> 0, second |-> 0, microsecond |-> 0]>>)
  IN
  LET \* datetime.strptime(date_str, fmt) for the four formats with a time of day,
      \* separator "T" or " "; a blank in the format matches a run of white space
      strptime(text, separator, fraction) ==
        LET Separates(c) == IF separator = "T" THEN c = "T" ELSE IsSpace(c)
            cut == {i \in 1..Len(text) :
                      Separates(text[i])
                        /\ \A j \in 1..(i - 1) : ~Separates(text[j])}
        IN  IF cut = {}
              THEN <<>>
              ELSE LET at == CHOOSE i \in cut : TRUE
                       rest == SubSeq(text, at + 1, Len(text))
                   IN  Combined(DateFields(SubSeq(text, 1, at - 1)),
                                TimeFields(IF separator = "T" THEN rest
                                                              ELSE lstrip(rest),
                                           fraction))
  IN
  IF date_str = <<>>
    THEN PyNone
    ELSE LET timed ==
               IF Contains(date_str, <<"T">>) \/ Contains(date_str, <<" ">>)
                 THEN strptime(date_str, "T", FALSE)
                        \o strptime(date_str, " ", FALSE)
                        \o strptime(date_str, "T", TRUE)
                        \o strptime(date_str, " ", TRUE)
                 ELSE <<>>
             dated == timed \o strptime_date(date_str)
         IN  IF dated = <<>> THEN PyNone ELSE PyDatetime(dated[1])

\* the processed_data of create_record
processed_data(data) ==
  LET \* keys create_record parses as sequences
      ARRAY_KEYS ==
        {"tags", "project_id", "client_id", "task_id", "milestone_id", "asset_id",
         "briefing_id", "meeting_transcript_id", "goal_id", "owner_id",
         "assigned_to_id"}
  IN
  LET \* keys create_record parses as dates
      DATE_KEYS == {"deadline", "due_date", "meeting_date", "date_completed"}
  IN
  LET \* str(value) of None, a string, an integer or a boolean
      str(value) ==
        CASE value.kind = "none" -> None
          [] value.kind = "str" -> value.v
          [] value.kind = "int" -> value.v
          [] value.kind = "bool" ->
               IF value.v = <<"True">> THEN <<"T", "r", "u", "e">>
                                       ELSE <<"F", "a", "l", "s", "e">>
  IN
  [key \in DOMAIN data |->
     IF key \in DATE_KEYS THEN parse_date_string(str(data[key]))
     ELSE IF key \in ARRAY_KEYS THEN parse_array_field(data[key])
     ELSE data[key]]

\* the create request for one field-map has been chosen
CreateInit ==
  LET \* field-maps of a task, with and without a name
      TaskData ==
        LET \* names given: empty, blank and a task's name
            NameValues == { <<>>, <<" ">>, <<"T", "1">> }
        IN
        LET \* values given for a sequence field
            SequenceValues ==
              { PyNone, PyStr(<<"[", "1", ",", " ", "2", "]">>),
                PyStr(<<"a", ",", " ", "b">>), PyList(<<PyInt(<<"1">>)>>),
                PyInt(<<"7">>) }
        IN
        LET \* values given for a date field
            DateValues ==
              { PyNone, PyStr(<<>>), PyStr(<<"s", "o", "o", "n">>),
                PyStr(<<"2", "0", "2", "5", "-", "0", "1", "-", "3", "1">>),
                PyStr(<<"2", "0", "2", "5", "-", "1", "-", "5">>),
                PyStr(<<"2", "0", "2", "5", "-", "0", "2", "-", "3", "0">>),
                PyStr(<<"2", "0", "2", "5", "-", "0", "1", "-", "3", "1", "T", "1", "0",
                        ":", "3", "0", ":", "0", "0">>),
                PyStr(<<"2", "0", "2", "5", "-", "0", "1", "-", "3", "1", " ", "1", "0",
                        ":", "3", "0", ":", "0", "0", ".", "5">>),
                PyStr(<<"3", "1", " ", "J", "a", "n">>) }
        IN
        { [name |-> name, deadline |-> deadline, tags |-> sequence] :
            name \in NameValues, deadline \in DateValues,
            sequence \in SequenceValues }
          \cup { [deadline |-> deadline, client_id |-> sequence] :
                   deadline \in DateValues, sequence \in SequenceValues }
          \cup { [name |-> name, client_id |-> sequence] :
                   name \in NameValues, sequence \in SequenceValues }
  IN
  /\ store = [t \in MODEL_MAP |-> {}]
  /\ next_id = [t \in MODEL_MAP |-> 1]
  /\ conversation_history = <<SystemMessage>>
  /\ pending_confirmation = <<>>
  /\ pending_field_confirmation = <<>>
  /\ response = Reply("", "none", "", "", None, 0, <<>>)
  /\ tool_results = <<>>
  /\ pending_from = ""
  /\ user_input = <<>>
  /\ resolved = FALSE
  /\ turns = 0
  /\ calls = 0
  /\ \E data \in TaskData :
       invocations = <<Call("create_record", "tasks", 0, data, "", "")>>
  /\ AsideInit

\* what the create steps leave alone
Uncreated ==
  <<store, next_id, conversation_history, pending_field_confirmation,
    user_input, response, pending_from, resolved, turns, invocations>>

\* create_record with a name: new_record = model_class(**processed_data)
CreateNamed ==
  /\ calls = 0
  /\ BlankName(invocations[1].data) = FALSE
  /\ calls' = 1
  /\ tool_results' =
       <<[tool |-> "create_record",
          new_record |-> processed_data(invocations[1].data)]>>
  /\ UNCHANGED pending_confirmation
  /\ UNCHANGED Uncreated
  /\ UNCHANGED Aside

\* create_record without a name: the field-map is kept until the user answers
CreateUnnamed ==
  /\ calls = 0
  /\ pending_confirmation = <<>>
  /\ tool_results = <<>>
  /\ BlankName(invocations[1].data) = TRUE
  /\ pending_confirmation' =
       <<[table |-> invocations[1].table, data |-> invocations[1].data]>>
  /\ tool_results' =
       <<[tool |-> "create_record", requires_confirmation |-> TRUE]>>
  /\ UNCHANGED calls
  /\ UNCHANGED Uncreated
  /\ UNCHANGED Aside

\* the user accepts: confirm_create_with_empty_name(pending_data['table'],
\* **pending_data['data']), new_record = model_class(**data)
CreateConfirmed ==
  /\ calls = 0
  /\ pending_confirmation # <<>>
  /\ pending_confirmation' = <<>>
  /\ calls' = 1
  /\ tool_results' =
       <<[tool |-> "confirm_create_with_empty_name",
          new_record |-> pending_confirmation[1].data]>>
  /\ UNCHANGED Uncreated
  /\ UNCHANGED Aside

CreateNext ==
  \/ CreateNamed
  \/ CreateUnnamed
  \/ CreateConfirmed

CreateSpec == CreateInit /\ [][CreateNext]_vars

(* ---------------- claims about the empty-name acceptance ---------------- *)
\* a record has been built on the empty-name acceptance path
BuiltUnnamed ==
  /\ calls = 1
  /\ tool_results[1].tool = "confirm_create_with_empty_name"

====
